---- MODULE Spec2Model ----
(***************************************************************************)
(* Trip & reservation accounting of the fleet-vehicle application.         *)
(*                                                                         *)
(* The datastore tables (vehicle_reservations, trips) are shared by all    *)
(* clients; every client is one browser tab of an authenticated user,      *)
(* showing one page at a time (VehicleReservations, StartTrip, ActiveTrips *)
(* or UserRankings).  Every awaited datastore call of a handler is one     *)
(* atomic step of the datastore, and other clients may run between two     *)
(* awaits of the same handler.  A datastore call may fail (err = TRUE).    *)
(***************************************************************************)
EXTENDS Integers, Sequences, FiniteSets, TLC

\* ---------------------------------------------------------------- bounds
MaxReservations == 2     \* rows the vehicle_reservations table may hold
MaxTrips == 1            \* rows the trips table may hold
MaxDay == 1              \* the date inputs range over days 1..MaxDay
MaxSlot == 1             \* the time inputs range over hours 0..MaxSlot of a day
MaxUpdates == 2          \* updates one reservation row may receive
MaxAdmissionRows == 1    \* rows of the stored tables the admission runs start from
MaxAdmissionDay == 2     \* the admission runs' date inputs range over 1..MaxAdmissionDay
MaxTripRows == 2         \* rows the trips table may hold in the trip runs
MaxTripUpdates == 2      \* updates one trip row may receive
MaxRankingTrips == 3     \* rows of the stored trips tables the ranking runs start from
MaxRankingMileage == 1   \* the mileages of those rows range over 0..MaxRankingMileage
MaxStatsTrips == 2       \* rows of the stored trips tables the statistics runs start from
MaxStatsObservations == 2 \* rows of the stored observations tables of those runs
MaxRangeTrips == 2       \* rows of the stored trips tables the low-range runs start from

\* ------------------------------------------------------------ identities
NULL == -999999998       \* SQL NULL in an integer column
NoValue == -1            \* an empty date or time input ("")
NaN == -999999999        \* parseInt's NaN (stored as NULL by the insert)

\* selectedReservation = null, and no handleSubmit suspended at an await
NoReservation == [id |-> 0, vehicle_id |-> ""]
NoToast == ""
NoRequest == [vehicle_id |-> "", start_time |-> 0, end_time |-> 0, isAvailable |-> FALSE]
\* selectedTrip = null
NoTrip == [id |-> 0, start_mileage |-> 0]

\* selectedReservation.notes || "Reserva": the optional notes field is left empty
Reserva == <<"R", "e", "s", "e", "r", "v", "a">>

Users == {"alice", "bob"}
user_roles == {<<"alice", "user">>, <<"bob", "user">>, <<"bob", "admin">>}
Vehicles == {"VEHICLE-001", "VEHICLE-002"}

\* the open pages (browser tabs)
Clients == {"tab1", "tab2"}

\* the rows the first migration seeds the roster with
Roster ==
    {[id |-> "VEHICLE-001", name |-> "Fleet Vehicle 1", license_plate |-> "ABC-123",
      qr_code |-> "VEHICLE-001"],
     [id |-> "VEHICLE-002", name |-> "Fleet Vehicle 2", license_plate |-> "XYZ-789",
      qr_code |-> "VEHICLE-002"]}

\* the ids the roster may use: the seeded ones and one more
VehicleIds == Vehicles \cup {"VEHICLE-003"}
NoVehicle == ""

\* the reservation form as useState leaves it: dialog closed, fields empty
NoForm == [isDialogOpen |-> FALSE, filled |-> FALSE]

\* the reservation form while the user has the dialog open and has typed into it
FilledForm == [isDialogOpen |-> TRUE, filled |-> TRUE]

Days == 1..MaxDay
Slots == 0..MaxSlot

VARIABLES
    vehicle_reservations,  \* table: sequence of rows, a row's id is its index
    trips,                 \* table: sequence of rows, a row's id is its index
    user,                  \* per client: the authenticated identity (useAuth().user.id)
    pc,                    \* per client: the await its handler is suspended at
    request,               \* per client: handleSubmit's locals across the await
    reservations,          \* per client: the page's `reservations` state (last fetch)
    selectedReservation,   \* per client: the row the start-trip dialog was opened on
    toast,                 \* the last notification shown by any page
    activeTrips,           \* per client: the ActiveTrips page's `trips` state (last fetch)
    selectedTrip,          \* per client: the trip the end-trip dialog was opened on
    rankings,              \* per client: the UserRankings page's `rankings` state
    vehicles,              \* table: the roster, a set of rows
    vehicle_observations,  \* table: sequence of rows, a row's id is its index
    form,                  \* per client: the reservation form (dialog and fields)
    reentrant,             \* per client: a second startTripFromReservation in flight
    loading,               \* per client: the StartTrip page's `loading` flag
    submitting,            \* per client: the ActiveTrips page's `submitting` flag
    vehiclesWithRange,     \* per client: the StartTrip page's `vehicles` state
    tripHistory,           \* per client: the rows a trip history page shows
    totalMileage,          \* per client: the AdminDashboard page's total
    stats,                 \* per client: the VehicleStats page's `stats` state
    managedVehicles        \* per client: VehicleManagement's `vehicles` state

\* the state of the trip pages
tripPages == <<activeTrips, selectedTrip, rankings, loading, submitting,
               vehiclesWithRange>>

\* the roster, the observations and the state of the reporting pages
reportPages == <<vehicles, vehicle_observations, tripHistory, totalMileage, stats,
                 managedVehicles>>

\* the state the VehicleReservations page does not touch
otherPages == <<tripPages, reportPages>>

vars == <<vehicle_reservations, trips, user, pc, request, reservations,
          selectedReservation, toast, activeTrips, selectedTrip, rankings,
          vehicles, vehicle_observations, form, reentrant, loading, submitting,
          vehiclesWithRange, tripHistory, totalMileage, stats, managedVehicles>>

\* ------------------------------------------------------------ datastore
has_role(uid, role) == <<uid, role>> \in user_roles

\* row-level policies of vehicle_reservations
ReservationSelectPolicy(uid, row) ==
    uid = row.user_id \/ has_role(uid, "admin")

ReservationInsertPolicy(uid, row) == uid = row.user_id

ReservationUpdatePolicy(uid, row) ==
    uid = row.user_id \/ has_role(uid, "admin")

\* row-level policy of trips
TripInsertPolicy(uid, row) == uid = row.user_id

\* the row an insert into vehicle_reservations stores: status takes its default
NewReservation(uid, vehicleId, start, end) ==
    [user_id |-> uid, vehicle_id |-> vehicleId, start_time |-> start,
     end_time |-> end, status |-> "pending", updated_at |-> 0]

\* the row an insert into trips stores: end_mileage, end_time and
\* range_remaining NULL, is_active true (sent by StartTrip, the column default
\* otherwise); start_time defaults to now(), so the rows of the table are in
\* the order of their start_time
NewTrip(uid, vehicleId, destination, startMileage) ==
    [user_id |-> uid, vehicle_id |-> vehicleId, destination |-> destination,
     start_mileage |-> startMileage, end_mileage |-> NULL, end_time |-> NULL,
     is_active |-> TRUE, updated_at |-> 0, range_remaining |-> NULL]

\* row-level policies of trips
TripSelectPolicy(uid, row) == uid = row.user_id \/ has_role(uid, "admin")

\* a variant of the update policy that admits every authenticated caller
TripUpdatePolicy_Authenticated(uid, row) == TRUE

TripUpdatePolicy(uid, row) == uid = row.user_id

\* JSON.stringify of a number in a request body: NaN is sent as null
JsonNumber(n) == IF n = NaN THEN NULL ELSE n

\* BEFORE UPDATE trigger update_updated_at_column: updated_at = now(), kept here
\* as the number of updates the row has received
update_updated_at_column(row) == [row EXCEPT !.updated_at = @ + 1]

\* a variant of the update that has lost its .eq("id", id) filter
UpdateReservationStatus_AllRows(rows, uid, id, s) ==
    [i \in 1..Len(rows) |->
        IF ReservationUpdatePolicy(uid, rows[i])
        THEN update_updated_at_column([rows[i] EXCEPT !.status = s])
        ELSE rows[i]]

\* update vehicle_reservations set status = s where id = id, under the policy
UpdateReservationStatus(rows, uid, id, s) ==
    [i \in 1..Len(rows) |->
        IF i = id /\ ReservationUpdatePolicy(uid, rows[i])
        THEN update_updated_at_column([rows[i] EXCEPT !.status = s])
        ELSE rows[i]]

\* a variant of the trip update that has lost is_active: false
UpdateTripEnd_StillActive(rows, uid, id, endMileage) ==
    [i \in 1..Len(rows) |->
        IF i = id /\ TripUpdatePolicy(uid, rows[i])
        THEN update_updated_at_column(
                 [rows[i] EXCEPT !.end_mileage = JsonNumber(endMileage),
                                 !.end_time = rows[i].updated_at + 1])
        ELSE rows[i]]

\* update trips set end_mileage, end_time = now, is_active = false where id = id,
\* under the policy; now is kept as the ordinal of the update on the row
UpdateTripEnd(rows, uid, id, endMileage) ==
    [i \in 1..Len(rows) |->
        IF i = id /\ TripUpdatePolicy(uid, rows[i])
        THEN update_updated_at_column(
                 [rows[i] EXCEPT !.end_mileage = JsonNumber(endMileage),
                                 !.end_time = rows[i].updated_at + 1,
                                 !.is_active = FALSE])
        ELSE rows[i]]

\* the trip update call fails: a transport error, or the row's update budget is spent
TripUpdateFails(rows, id, err) ==
    err \/ (id \in 1..Len(rows) /\ rows[id].updated_at >= MaxTripUpdates)

\* the update call fails: a transport error, or the row's update budget is spent
UpdateFails(rows, id, err) ==
    err \/ (id \in 1..Len(rows) /\ rows[id].updated_at >= MaxUpdates)

\* row-level policies of vehicles: "Admins can insert vehicles", "Admins can
\* update vehicles", "Admins can delete vehicles"
VehicleInsertPolicy(uid, row) == has_role(uid, "admin")

VehicleUpdatePolicy(uid, row) == has_role(uid, "admin")

\* a variant of the delete policy that admits every authenticated caller
VehicleDeletePolicy_Authenticated(uid, row) == TRUE

VehicleDeletePolicy(uid, row) == has_role(uid, "admin")

\* license_plate and qr_code are UNIQUE
VehicleUnique(rows, row) ==
    \A r \in rows :
        r.id # row.id
        => r.license_plate # row.license_plate /\ r.qr_code # row.qr_code

\* the rows an update of vehicles by id changes for uid
VehicleUpdateTargets(rows, uid, id) ==
    {r \in rows : r.id = id /\ VehicleUpdatePolicy(uid, r)}

\* the rows a delete of vehicles by id removes for uid
VehicleDeleteTargets(rows, uid, id) ==
    {r \in rows : r.id = id /\ VehicleDeletePolicy(uid, r)}

\* ON DELETE CASCADE of vehicle_id: the rows of a table that reference none of
\* the removed vehicles
RECURSIVE Cascade(_, _)
Cascade(rows, removed) ==
    IF rows = <<>> THEN <<>>
    ELSE LET rest == Cascade(SubSeq(rows, 1, Len(rows) - 1), removed)
             row == rows[Len(rows)]
         IN  IF \E r \in removed : r.id = row.vehicle_id THEN rest
             ELSE Append(rest, row)

\* ------------------------------------------------------- pure functions
\* `${date}T${time}:00`, ordered as new Date(...) and the datastore order it
HoursPerDay == 24
DateTime(date, time) == date * HoursPerDay + time

Digits == {"0", "1", "2", "3", "4", "5", "6", "7", "8", "9"}
DigitValue(ch) ==
    CASE ch = "0" -> 0 [] ch = "1" -> 1 [] ch = "2" -> 2 [] ch = "3" -> 3
      [] ch = "4" -> 4 [] ch = "5" -> 5 [] ch = "6" -> 6 [] ch = "7" -> 7
      [] ch = "8" -> 8 [] ch = "9" -> 9

RECURSIVE ParseDigits(_, _, _)
\* the value of the longest digit prefix of s from position i on, NaN if empty
ParseDigits(s, i, acc) ==
    IF i > Len(s) \/ s[i] \notin Digits
    THEN acc
    ELSE ParseDigits(s, i + 1, (IF acc = NaN THEN 0 ELSE acc * 10) + DigitValue(s[i]))

\* JavaScript parseInt(s) in base 10 on a string given as its characters
parseInt(s) ==
    IF Len(s) > 0 /\ s[1] = "-"
    THEN LET n == ParseDigits(s, 2, NaN) IN IF n = NaN THEN NaN ELSE 0 - n
    ELSE ParseDigits(s, 1, NaN)

\* a finite value that is not an integer (Number("1.5"))
NotInteger == -999999997

RECURSIVE DigitRun(_, _)
\* the first position from i on that holds no digit
DigitRun(s, i) ==
    IF i > Len(s) \/ s[i] \notin Digits THEN i ELSE DigitRun(s, i + 1)

RECURSIVE DigitsValue(_, _, _)
\* the value of the digits s[i..j-1], 0 when there are none
DigitsValue(s, i, j) ==
    IF j <= i THEN 0 ELSE DigitsValue(s, i, j - 1) * 10 + DigitValue(s[j - 1])

RECURSIVE Pow10(_)
Pow10(n) == IF n = 0 THEN 1 ELSE 10 * Pow10(n - 1)

\* JavaScript Number(s), the coercion of z.coerce.number(), on a string given as
\* its characters: "" is 0; [sign] digits [. digits] [e digits] or [sign] . digits
\* [e digits] is its decimal value; any other string is NaN
Number(s) ==
    IF s = <<>> THEN 0
    ELSE LET signed == s[1] \in {"-", "+"}
             intStart == IF signed THEN 2 ELSE 1
             intEnd == DigitRun(s, intStart)
             hasDot == intEnd <= Len(s) /\ s[intEnd] = "."
             fracStart == IF hasDot THEN intEnd + 1 ELSE intEnd
             fracEnd == DigitRun(s, fracStart)
             hasExp == fracEnd <= Len(s) /\ s[fracEnd] \in {"e", "E"}
             expStart == IF hasExp THEN fracEnd + 1 ELSE fracEnd
             expEnd == DigitRun(s, expStart)
             wellFormed == /\ (intEnd - intStart) + (fracEnd - fracStart) > 0
                           /\ hasExp => expEnd > expStart
                           /\ expEnd = Len(s) + 1
             mantissa == DigitsValue(s, intStart, intEnd) * Pow10(fracEnd - fracStart)
                         + DigitsValue(s, fracStart, fracEnd)
             shift == DigitsValue(s, expStart, expEnd) - (fracEnd - fracStart)
             magnitude == IF shift >= 0 THEN mantissa * Pow10(shift)
                          ELSE IF mantissa % Pow10(0 - shift) = 0
                               THEN mantissa \div Pow10(0 - shift)
                               ELSE NotInteger
         IN  IF ~wellFormed THEN NaN
             ELSE IF magnitude = NotInteger THEN NotInteger
             ELSE IF s[1] = "-" THEN 0 - magnitude ELSE magnitude

MaxMileage == 999999
Valid == ""

\* mileageSchema.parse(s): Valid, or the message of the first issue of
\* z.coerce.number().int().min(0, ...).max(999999)
mileageSchema(s) ==
    LET n == Number(s)
    IN  IF n = NaN THEN "Expected number, received nan"
        ELSE IF n = NotInteger THEN "Expected integer, received float"
        ELSE IF n < 0 THEN "Mileage must be a positive number"
        ELSE IF n > MaxMileage THEN "Number must be less than or equal to 999999"
        ELSE Valid

RECURSIVE trimStart(_)
trimStart(s) == IF s # <<>> /\ Head(s) = " " THEN trimStart(Tail(s)) ELSE s

RECURSIVE trimEnd(_)
trimEnd(s) ==
    IF s # <<>> /\ s[Len(s)] = " " THEN trimEnd(SubSeq(s, 1, Len(s) - 1)) ELSE s

\* String.prototype.trim on a string given as its characters
trim(s) == trimEnd(trimStart(s))

MinDestination == 3
MaxDestination == 200

\* a variant of the schema that measures the destination without trimming it
destinationSchema_Untrimmed(s) ==
    IF Len(s) < MinDestination THEN "Destination must be at least 3 characters"
    ELSE IF Len(s) > MaxDestination
         THEN "String must contain at most 200 character(s)"
         ELSE Valid

\* destinationSchema.parse(s): Valid, or the message of the first issue of
\* z.string().trim().min(3, ...).max(200)
destinationSchema(s) ==
    IF Len(trim(s)) < MinDestination THEN "Destination must be at least 3 characters"
    ELSE IF Len(trim(s)) > MaxDestination
         THEN "String must contain at most 200 character(s)"
         ELSE Valid

\* a variant of the availability query that filters on status = pending alone
AvailabilityRows_PendingOnly(rows, uid, vehicleId, start, end) ==
    {i \in 1..Len(rows) :
        /\ ReservationSelectPolicy(uid, rows[i])
        /\ rows[i].vehicle_id = vehicleId
        /\ rows[i].status = "pending"
        /\ (rows[i].start_time <= end \/ rows[i].end_time >= start)}

\* the rows the availability query returns to uid
AvailabilityRows(rows, uid, vehicleId, start, end) ==
    {i \in 1..Len(rows) :
        /\ ReservationSelectPolicy(uid, rows[i])
        /\ rows[i].vehicle_id = vehicleId
        /\ rows[i].status \in {"pending", "active"}
        /\ (rows[i].start_time <= end \/ rows[i].end_time >= start)}

\* a variant of the check that answers true on a query error
checkAvailability_FailOpen(rows, uid, vehicleId, start, end, err) ==
    err \/ AvailabilityRows(rows, uid, vehicleId, start, end) = {}

\* checkAvailability: false on a query error, else whether no row came back
checkAvailability(rows, uid, vehicleId, start, end, err) ==
    IF err THEN FALSE
    ELSE AvailabilityRows(rows, uid, vehicleId, start, end) = {}

\* fetchData's reservation query: the caller's own rows
FetchReservations(rows, uid) ==
    {[id |-> i, vehicle_id |-> rows[i].vehicle_id, status |-> rows[i].status] :
        i \in {j \in 1..Len(rows) :
                 ReservationSelectPolicy(uid, rows[j]) /\ rows[j].user_id = uid}}

\* fetchData after a handler: the page state is replaced unless the query errors
fetchData(c, rows, err) ==
    IF err THEN reservations[c] ELSE FetchReservations(rows, user[c])

\* fetchActiveTrips' query: the caller's own active trips
FetchActiveTrips(rows, uid) ==
    {[id |-> i, start_mileage |-> rows[i].start_mileage] :
        i \in {j \in 1..Len(rows) :
                 /\ TripSelectPolicy(uid, rows[j])
                 /\ rows[j].user_id = uid
                 /\ rows[j].is_active}}

\* a < b on JavaScript numbers: false when either side is NaN
Less(a, b) == a # NaN /\ b # NaN /\ a < b

\* x || 0 on a nullable number
OrZero(x) == IF x = NULL \/ x = 0 THEN 0 ELSE x

\* a variant of the distance that forgets the start mileage
distance_EndOnly(trip) == OrZero(trip.end_mileage)

\* const distance = (trip.end_mileage || 0) - trip.start_mileage
distance(trip) == OrZero(trip.end_mileage) - trip.start_mileage

\* the rows fetchRankings' query may return to uid: the visible trips whose
\* end_mileage is not null
RankingRows(rows, uid) ==
    {i \in 1..Len(rows) :
        TripSelectPolicy(uid, rows[i]) /\ rows[i].end_mileage # NULL}

\* the orders a query without ORDER BY may return a set of rows in
Orders(ids) ==
    {o \in [1..Cardinality(ids) -> ids] :
        \A i \in DOMAIN o, j \in DOMAIN o : i # j => o[i] # o[j]}

RECURSIVE userMap(_)
\* data.forEach over the Map, kept as its values in insertion order
userMap(data) ==
    IF data = <<>> THEN <<>>
    ELSE LET before == userMap(SubSeq(data, 1, Len(data) - 1))
             trip == data[Len(data)]
         IN  IF \E k \in DOMAIN before : before[k].user_id = trip.user_id
             THEN [k \in DOMAIN before |->
                      IF before[k].user_id = trip.user_id
                      THEN [before[k] EXCEPT !.total_km = @ + distance(trip),
                                             !.total_trips = @ + 1]
                      ELSE before[k]]
             ELSE Append(before, [user_id |-> trip.user_id,
                                  total_km |-> distance(trip), total_trips |-> 1])

\* a variant of the comparator that sorts ascending
compareRankings_Ascending(a, b) == a.total_km - b.total_km

\* (a, b) => b.total_km - a.total_km
compareRankings(a, b) == b.total_km - a.total_km

RECURSIVE sort(_)
\* a variant of the sort that leaves the array as it is
sort_Unsorted(entries) == entries

\* Array.prototype.sort with compareRankings: a stable sort
sort(entries) ==
    IF entries = <<>> THEN <<>>
    ELSE LET sorted == sort(SubSeq(entries, 1, Len(entries) - 1))
             x == entries[Len(entries)]
             k == Cardinality({i \in DOMAIN sorted : compareRankings(sorted[i], x) <= 0})
         IN  SubSeq(sorted, 1, k) \o <<x>> \o SubSeq(sorted, k + 1, Len(sorted))

\* the array fetchRankings stores when the query returns the rows in this order
rankingsArray(rows, order) ==
    sort(userMap([k \in DOMAIN order |-> rows[order[k]]]))

\* the truth value of a nullable number in a condition: null and 0 are falsy
Truthy(x) == x # NULL /\ x # 0

\* TripHistory's calculateDistance
TripHistory_calculateDistance(trip) ==
    IF Truthy(trip.end_mileage) /\ Truthy(trip.start_mileage)
    THEN trip.end_mileage - trip.start_mileage
    ELSE NULL

\* UserTripsHistory's calculateDistance
UserTripsHistory_calculateDistance(trip) ==
    IF Truthy(trip.end_mileage) /\ Truthy(trip.start_mileage)
    THEN trip.end_mileage - trip.start_mileage
    ELSE NULL

\* the rows a trips query filtered on user_id returns to uid
TripsOfUser(rows, uid, userId) ==
    {i \in 1..Len(rows) : TripSelectPolicy(uid, rows[i]) /\ rows[i].user_id = userId}

\* the rows an unfiltered trips query returns to uid
AllTrips(rows, uid) == {i \in 1..Len(rows) : TripSelectPolicy(uid, rows[i])}

RECURSIVE reduceTotalMileage(_, _)
\* allTrips.reduce((sum, trip) => trip.end_mileage ? sum + (end - start) : sum, 0)
reduceTotalMileage(rows, ids) ==
    IF ids = {} THEN 0
    ELSE LET i == CHOOSE j \in ids : TRUE
         IN  reduceTotalMileage(rows, ids \ {i})
             + (IF Truthy(rows[i].end_mileage)
                THEN rows[i].end_mileage - rows[i].start_mileage
                ELSE 0)

\* "Users can view their own observations", "Admins can view all observations"
ObservationSelectPolicy(uid, row) == uid = row.user_id \/ has_role(uid, "admin")

\* the rows fetchStats' trips query may return to uid: the visible trips whose
\* end_mileage is not null
StatsRows(rows, uid) ==
    {i \in 1..Len(rows) :
        TripSelectPolicy(uid, rows[i]) /\ rows[i].end_mileage # NULL}

\* a variant of the observations query without its two filters
issuesData_Unfiltered(rows, uid) ==
    {i \in 1..Len(rows) : ObservationSelectPolicy(uid, rows[i])}

\* the rows fetchStats' observations query returns to uid: the visible
\* observations of type issue that are not resolved
issuesData(rows, uid) ==
    {i \in 1..Len(rows) :
        /\ ObservationSelectPolicy(uid, rows[i])
        /\ rows[i].observation_type = "issue"
        /\ rows[i].is_resolved = FALSE}

\* issuesMap.get(vehicleId) || 0 after the forEach over issuesData
issuesMap(rows, uid, vehicleId) ==
    Cardinality({i \in issuesData(rows, uid) : rows[i].vehicle_id = vehicleId})

RECURSIVE Gcd(_, _)
Gcd(a, b) == IF b = 0 THEN a ELSE Gcd(b, a % b)

\* the number n / d (d > 0), kept exact as a fraction in lowest terms
Quotient(n, d) ==
    LET g == Gcd(IF n < 0 THEN -n ELSE n, d)
    IN  <<n \div g, d \div g>>

RECURSIVE vehicleMap(_, _, _)
\* tripsData.forEach over the Map, kept as its values in insertion order
vehicleMap(data, observations, uid) ==
    IF data = <<>> THEN <<>>
    ELSE LET before == vehicleMap(SubSeq(data, 1, Len(data) - 1), observations, uid)
             trip == data[Len(data)]
             dist == OrZero(trip.end_mileage) - trip.start_mileage
         IN  IF \E k \in DOMAIN before : before[k].vehicle_id = trip.vehicle_id
             THEN [k \in DOMAIN before |->
                      IF before[k].vehicle_id = trip.vehicle_id
                      THEN [before[k] EXCEPT !.total_km = @ + dist,
                                             !.total_trips = @ + 1]
                      ELSE before[k]]
             ELSE Append(before,
                         [vehicle_id |-> trip.vehicle_id,
                          total_km |-> dist,
                          total_trips |-> 1,
                          avg_km_per_trip |-> Quotient(0, 1),
                          active_issues |-> issuesMap(observations, uid,
                                                      trip.vehicle_id)])

\* a variant of the map step that leaves the average at its initial 0
withAverage_Unset(stat) == stat

\* (stat) => ({...stat, avg_km_per_trip: stat.total_km / stat.total_trips})
withAverage(stat) ==
    [stat EXCEPT !.avg_km_per_trip = Quotient(stat.total_km, stat.total_trips)]

\* (a, b) => b.total_km - a.total_km
compareStats(a, b) == b.total_km - a.total_km

RECURSIVE sortStats(_)
\* Array.prototype.sort with compareStats: a stable sort
sortStats(entries) ==
    IF entries = <<>> THEN <<>>
    ELSE LET sorted == sortStats(SubSeq(entries, 1, Len(entries) - 1))
             x == entries[Len(entries)]
             k == Cardinality({i \in DOMAIN sorted : compareStats(sorted[i], x) <= 0})
         IN  SubSeq(sorted, 1, k) \o <<x>> \o SubSeq(sorted, k + 1, Len(sorted))

\* the array fetchStats stores when the trips query returns the rows in this order
statsArray(rows, order, observations, uid) ==
    LET m == vehicleMap([k \in DOMAIN order |-> rows[order[k]]], observations, uid)
    IN  sortStats([k \in DOMAIN m |-> withAverage(m[k])])

\* x || null on a nullable number
OrNull(x) == IF x = NULL \/ x = 0 THEN NULL ELSE x

\* tripData?.range_remaining of fetchVehicles' query for one vehicle: the
\* visible trip of the vehicle with the latest start_time, if there is one and
\* the query did not fail
latestRange(rows, uid, vehicleId, err) ==
    LET ids == {i \in 1..Len(rows) :
                   TripSelectPolicy(uid, rows[i]) /\ rows[i].vehicle_id = vehicleId}
    IN  IF err \/ ids = {} THEN NULL
        ELSE rows[CHOOSE i \in ids : \A j \in ids : j <= i].range_remaining

\* the warning threshold of the trip-start screen, in km
LowRange == 130

\* vehicle.range_remaining && vehicle.range_remaining < 130
showsWarning(range_remaining) ==
    Truthy(range_remaining) /\ range_remaining < LowRange

\* the warning block of the StartTrip form is rendered for the selected vehicle
LowRangeWarning(view, selectedVehicle) ==
    \E v \in view : v.id = selectedVehicle /\ showsWarning(v.range_remaining)

\* ---------------------------------------------------------------- inputs
VehicleInputs == {"VEHICLE-001", ""}
DateInputs == Days \cup {NoValue}
TimeInputs == Slots \cup {NoValue}
MileageInputs == {<<>>, <<"4", "2">>, <<"k", "m">>}

\* ------------------------------------------------------------------ Init
\* every page other than the ones a run starts on in its state after
\* construction
InitViews ==
    /\ reentrant = [c \in Clients |-> NoReservation]
    /\ loading = [c \in Clients |-> FALSE]
    /\ submitting = [c \in Clients |-> FALSE]
    /\ vehiclesWithRange = [c \in Clients |-> {}]
    /\ tripHistory = [c \in Clients |-> {}]
    /\ totalMileage = [c \in Clients |-> 0]
    /\ stats = [c \in Clients |-> <<>>]
    /\ managedVehicles = [c \in Clients |-> {}]

Init ==
    /\ vehicle_reservations = <<>>
    /\ trips = <<>>
    /\ user \in {u \in [Clients -> Users] : u["tab1"] = "alice"}
    /\ pc = [c \in Clients |-> "idle"]
    /\ request = [c \in Clients |-> NoRequest]
    /\ reservations = [c \in Clients |-> {}]
    /\ selectedReservation = [c \in Clients |-> NoReservation]
    /\ toast = NoToast
    /\ activeTrips = [c \in Clients |-> {}]
    /\ selectedTrip = [c \in Clients |-> NoTrip]
    /\ rankings = [c \in Clients |-> <<>>]
    /\ vehicles = Roster
    /\ vehicle_observations = <<>>
    /\ form = [c \in Clients |-> NoForm]
    /\ InitViews

\* --------------------------------------------------------------- actions
\* toast.error(...) / toast.success(...) on page c
Toast(c, message) == message

\* The page is (re)loaded: component state is reset and fetchData runs.
Mount(c, err) ==
    /\ pc[c] = "idle"
    /\ reservations' = [reservations EXCEPT
                           ![c] = IF err THEN {}
                                  ELSE FetchReservations(vehicle_reservations, user[c])]
    /\ selectedReservation' = [selectedReservation EXCEPT ![c] = NoReservation]
    /\ toast' = IF err THEN Toast(c, "Erro ao carregar dados") ELSE toast
    /\ UNCHANGED <<vehicle_reservations, trips, user, pc, request>>
    /\ UNCHANGED otherPages
    /\ form' = [form EXCEPT ![c] = NoForm]
    /\ UNCHANGED reentrant

\* !selectedVehicle || !startDate || !startTime || !endDate || !endTime
FormIncomplete(selectedVehicle, startDate, startTime, endDate, endTime) ==
    \/ selectedVehicle = ""
    \/ startDate = NoValue \/ startTime = NoValue
    \/ endDate = NoValue \/ endTime = NoValue

\* a variant of the order check that lets equal times through
StartNotBeforeEnd_Strict(startDateTime, endDateTime) == startDateTime > endDateTime

\* new Date(startDateTime) >= new Date(endDateTime)
StartNotBeforeEnd(startDateTime, endDateTime) == startDateTime >= endDateTime

\* a variant of the handler that ignores the availability answer
Unavailable_Ignored(isAvailable) == FALSE

\* !isAvailable
Unavailable(isAvailable) == ~isAvailable

\* handleSubmit up to its first await: the form checks, then the availability query.
handleSubmit(c, selectedVehicle, startDate, startTime, endDate, endTime, err) ==
    /\ pc[c] = "idle"
    /\ selectedReservation[c] = NoReservation
    /\ IF FormIncomplete(selectedVehicle, startDate, startTime, endDate, endTime)
       THEN /\ toast' = Toast(c, "Preencha todos os campos obrigatorios")
            /\ UNCHANGED <<pc, request>>
       ELSE LET startDateTime == DateTime(startDate, startTime)
                endDateTime == DateTime(endDate, endTime)
            IN  IF StartNotBeforeEnd(startDateTime, endDateTime)
                THEN /\ toast' = Toast(c, "A data de inicio deve ser anterior a data de fim")
                     /\ UNCHANGED <<pc, request>>
                ELSE /\ pc' = [pc EXCEPT ![c] = "checked"]
                     /\ request' = [request EXCEPT ![c] =
                            [vehicle_id |-> selectedVehicle,
                             start_time |-> startDateTime,
                             end_time |-> endDateTime,
                             isAvailable |-> checkAvailability(vehicle_reservations,
                                                user[c], selectedVehicle,
                                                startDateTime, endDateTime, err)]]
                     /\ UNCHANGED toast
    /\ UNCHANGED <<vehicle_reservations, trips, user, reservations, selectedReservation>>
    /\ UNCHANGED otherPages
    /\ UNCHANGED <<form, reentrant>>

\* handleSubmit after the availability query: reject, or insert and refetch.
handleSubmitInsert(c, err, fetchErr) ==
    /\ pc[c] = "checked"
    /\ pc' = [pc EXCEPT ![c] = "idle"]
    /\ request' = [request EXCEPT ![c] = NoRequest]
    /\ IF Unavailable(request[c].isAvailable)
       THEN /\ toast' = Toast(c, "Veiculo nao disponivel no periodo selecionado")
            /\ UNCHANGED <<vehicle_reservations, reservations, form>>
       ELSE LET row == NewReservation(user[c], request[c].vehicle_id,
                                      request[c].start_time, request[c].end_time)
            IN  IF err \/ ~ReservationInsertPolicy(user[c], row)
                       \/ Len(vehicle_reservations) >= MaxReservations
                THEN /\ toast' = Toast(c, "Erro ao criar reserva")
                     /\ UNCHANGED <<vehicle_reservations, reservations, form>>
                ELSE /\ vehicle_reservations' = Append(vehicle_reservations, row)
                     /\ toast' = Toast(c, "Reserva criada com sucesso")
                     /\ form' = [form EXCEPT ![c] = NoForm]
                     /\ reservations' = [reservations EXCEPT
                            ![c] = fetchData(c, vehicle_reservations', fetchErr)]
    /\ UNCHANGED <<trips, user, selectedReservation>>
    /\ UNCHANGED otherPages
    /\ UNCHANGED reentrant

\* The Cancelar button of a row the page shows as pending.
cancelReservation(c, id, err, fetchErr) ==
    /\ pc[c] = "idle"
    /\ selectedReservation[c] = NoReservation
    /\ \E r \in reservations[c] : r.id = id /\ r.status = "pending"
    /\ IF UpdateFails(vehicle_reservations, id, err)
       THEN /\ toast' = Toast(c, "Erro ao cancelar reserva")
            /\ UNCHANGED <<vehicle_reservations, reservations>>
       ELSE /\ vehicle_reservations' =
                   UpdateReservationStatus(vehicle_reservations, user[c], id, "cancelled")
            /\ toast' = Toast(c, "Reserva cancelada")
            /\ reservations' = [reservations EXCEPT
                   ![c] = fetchData(c, vehicle_reservations', fetchErr)]
    /\ UNCHANGED <<trips, user, pc, request, selectedReservation>>
    /\ UNCHANGED otherPages
    /\ UNCHANGED <<form, reentrant>>

\* The Iniciar Viagem button of a row the page shows as pending opens the dialog.
openStartTripDialog(c, id) ==
    /\ pc[c] = "idle"
    /\ selectedReservation[c] = NoReservation
    /\ \E r \in reservations[c] :
          /\ r.id = id /\ r.status = "pending"
          /\ selectedReservation' = [selectedReservation EXCEPT
                 ![c] = [id |-> r.id, vehicle_id |-> r.vehicle_id]]
    /\ UNCHANGED <<vehicle_reservations, trips, user, pc, request, reservations, toast>>
    /\ UNCHANGED otherPages
    /\ UNCHANGED <<form, reentrant>>

\* The dialog's Cancelar button.
closeStartTripDialog(c) ==
    /\ pc[c] = "idle"
    /\ selectedReservation[c] # NoReservation
    /\ selectedReservation' = [selectedReservation EXCEPT ![c] = NoReservation]
    /\ UNCHANGED <<vehicle_reservations, trips, user, pc, request, reservations, toast>>
    /\ UNCHANGED otherPages
    /\ UNCHANGED <<form, reentrant>>

\* startTripFromReservation up to the trip insert.
startTripFromReservation(c, startMileage, err) ==
    /\ pc[c] = "idle"
    /\ selectedReservation[c] # NoReservation
    /\ IF startMileage = <<>>
       THEN /\ toast' = Toast(c, "Preencha a quilometragem inicial")
            /\ UNCHANGED <<trips, pc>>
       ELSE LET row == NewTrip(user[c], selectedReservation[c].vehicle_id,
                               Reserva, parseInt(startMileage))
            IN  IF err \/ ~TripInsertPolicy(user[c], row)
                       \/ row.start_mileage = NaN
                       \/ Len(trips) >= MaxTrips
                THEN /\ toast' = Toast(c, "Erro ao iniciar viagem")
                     /\ UNCHANGED <<trips, pc>>
                ELSE /\ trips' = Append(trips, row)
                     /\ pc' = [pc EXCEPT ![c] = "tripInserted"]
                     /\ UNCHANGED toast
    /\ UNCHANGED <<vehicle_reservations, user, request, reservations, selectedReservation>>
    /\ UNCHANGED otherPages
    /\ UNCHANGED <<form, reentrant>>

\* startTripFromReservation after the trip insert: the reservation update; on
\* success the page navigates to /trips, which unmounts it and drops its state.
startTripUpdateReservation(c, err) ==
    /\ pc[c] = "tripInserted"
    /\ pc' = [pc EXCEPT ![c] = "idle"]
    /\ IF UpdateFails(vehicle_reservations, selectedReservation[c].id, err)
       THEN /\ toast' = Toast(c, "Erro ao iniciar viagem")
            /\ UNCHANGED <<vehicle_reservations, reservations, selectedReservation, form>>
       ELSE /\ vehicle_reservations' =
                   UpdateReservationStatus(vehicle_reservations, user[c],
                                           selectedReservation[c].id, "active")
            /\ toast' = Toast(c, "Viagem iniciada com sucesso")
            /\ selectedReservation' = [selectedReservation EXCEPT ![c] = NoReservation]
            /\ reservations' = [reservations EXCEPT ![c] = {}]
            /\ form' = [form EXCEPT ![c] = NoForm]
    /\ UNCHANGED <<trips, user, request>>
    /\ UNCHANGED otherPages
    /\ UNCHANGED reentrant

\* The dialog's Iniciar Viagem button is clicked again while the first
\* invocation waits for the answer to its reservation update: the button has
\* no disabled state and the dialog is still open, so startTripFromReservation
\* runs a second time, up to its trip insert, with the same selectedReservation.
startTripFromReservation_Reentrant(c, startMileage, err) ==
    /\ pc[c] = "tripInserted"
    /\ reentrant[c] = NoReservation
    /\ selectedReservation[c] # NoReservation
    /\ IF startMileage = <<>>
       THEN /\ toast' = Toast(c, "Preencha a quilometragem inicial")
            /\ UNCHANGED <<trips, reentrant>>
       ELSE LET row == NewTrip(user[c], selectedReservation[c].vehicle_id,
                               Reserva, parseInt(startMileage))
            IN  IF err \/ ~TripInsertPolicy(user[c], row)
                       \/ row.start_mileage = NaN
                       \/ Len(trips) >= MaxTripRows
                THEN /\ toast' = Toast(c, "Erro ao iniciar viagem")
                     /\ UNCHANGED <<trips, reentrant>>
                ELSE /\ trips' = Append(trips, row)
                     /\ reentrant' = [reentrant EXCEPT ![c] = selectedReservation[c]]
                     /\ UNCHANGED toast
    /\ UNCHANGED <<vehicle_reservations, user, pc, request, reservations,
                   selectedReservation, form>>
    /\ UNCHANGED otherPages

\* The second invocation after its trip insert: the reservation update, whose
\* answer is taken after the first invocation's.
startTripUpdateReservation_Reentrant(c, err) ==
    /\ pc[c] = "idle"
    /\ reentrant[c] # NoReservation
    /\ reentrant' = [reentrant EXCEPT ![c] = NoReservation]
    /\ IF UpdateFails(vehicle_reservations, reentrant[c].id, err)
       THEN /\ toast' = Toast(c, "Erro ao iniciar viagem")
            /\ UNCHANGED <<vehicle_reservations, reservations, selectedReservation, form>>
       ELSE /\ vehicle_reservations' =
                   UpdateReservationStatus(vehicle_reservations, user[c],
                                           reentrant[c].id, "active")
            /\ toast' = Toast(c, "Viagem iniciada com sucesso")
            /\ selectedReservation' = [selectedReservation EXCEPT ![c] = NoReservation]
            /\ reservations' = [reservations EXCEPT ![c] = {}]
            /\ form' = [form EXCEPT ![c] = NoForm]
    /\ UNCHANGED <<trips, user, pc, request>>
    /\ UNCHANGED otherPages

\* the tab leaves the VehicleReservations page: its component state is dropped
LeaveReservations(c) ==
    /\ reservations' = [reservations EXCEPT ![c] = {}]
    /\ selectedReservation' = [selectedReservation EXCEPT ![c] = NoReservation]
    /\ form' = [form EXCEPT ![c] = NoForm]

\* a variant of the finally block that leaves the flag as it is
finally_Kept(flag, c) == flag

\* finally { setLoading(false) } / finally { setSubmitting(false) }
finally(flag, c) == [flag EXCEPT ![c] = FALSE]

\* StartTrip's handleSubmit on tab c showing the StartTrip page, up to its
\* await: the submit button is disabled while `loading` is set.
StartTrip_handleSubmit(c, selectedVehicle, destination, startMileage) ==
    /\ pc[c] = "idle"
    /\ ~loading[c]
    /\ LeaveReservations(c)
    /\ activeTrips' = [activeTrips EXCEPT ![c] = {}]
    /\ selectedTrip' = [selectedTrip EXCEPT ![c] = NoTrip]
    /\ rankings' = [rankings EXCEPT ![c] = <<>>]
    /\ IF destinationSchema(destination) # Valid
       THEN /\ toast' = Toast(c, destinationSchema(destination))
            /\ loading' = finally([loading EXCEPT ![c] = TRUE], c)
            /\ UNCHANGED <<pc, request>>
       ELSE IF mileageSchema(startMileage) # Valid
       THEN /\ toast' = Toast(c, mileageSchema(startMileage))
            /\ loading' = finally([loading EXCEPT ![c] = TRUE], c)
            /\ UNCHANGED <<pc, request>>
       ELSE IF selectedVehicle = ""
       THEN /\ toast' = Toast(c, "Please select a vehicle")
            /\ loading' = finally([loading EXCEPT ![c] = TRUE], c)
            /\ UNCHANGED <<pc, request>>
       ELSE /\ pc' = [pc EXCEPT ![c] = "starting"]
            /\ request' = [request EXCEPT ![c] =
                   [selectedVehicle |-> selectedVehicle,
                    destination |-> destination,
                    startMileage |-> startMileage]]
            /\ loading' = [loading EXCEPT ![c] = TRUE]
            /\ UNCHANGED toast
    /\ UNCHANGED <<vehicle_reservations, trips, user, reentrant, submitting,
                   vehiclesWithRange>>
    /\ UNCHANGED reportPages

\* StartTrip's handleSubmit from its await on: the insert and its answer.
StartTrip_handleSubmitInsert(c, err) ==
    /\ pc[c] = "starting"
    /\ pc' = [pc EXCEPT ![c] = "idle"]
    /\ request' = [request EXCEPT ![c] = NoRequest]
    /\ loading' = finally(loading, c)
    /\ LET row == NewTrip(user[c], request[c].selectedVehicle,
                          trim(request[c].destination),
                          JsonNumber(parseInt(request[c].startMileage)))
       IN  IF err \/ ~TripInsertPolicy(user[c], row)
                  \/ row.start_mileage = NULL
                  \/ Len(trips) >= MaxTripRows
           THEN /\ toast' = Toast(c, "Failed to start trip")
                /\ UNCHANGED trips
           ELSE /\ trips' = Append(trips, row)
                /\ toast' = Toast(c, "Trip started successfully!")
    /\ UNCHANGED <<vehicle_reservations, user, reservations, selectedReservation,
                   form, reentrant, activeTrips, selectedTrip, rankings,
                   submitting, vehiclesWithRange>>
    /\ UNCHANGED reportPages

\* The ActiveTrips page is (re)loaded on tab c: its state is reset and
\* fetchActiveTrips runs.
ActiveTrips_Mount(c, err) ==
    /\ pc[c] = "idle"
    /\ LeaveReservations(c)
    /\ activeTrips' = [activeTrips EXCEPT
                          ![c] = IF err THEN {} ELSE FetchActiveTrips(trips, user[c])]
    /\ selectedTrip' = [selectedTrip EXCEPT ![c] = NoTrip]
    /\ rankings' = [rankings EXCEPT ![c] = <<>>]
    /\ vehiclesWithRange' = [vehiclesWithRange EXCEPT ![c] = {}]
    /\ UNCHANGED <<vehicle_reservations, trips, user, pc, request, toast,
                   reentrant, loading, submitting>>
    /\ UNCHANGED reportPages

\* A click on the card of a listed trip opens the end-trip dialog.
setSelectedTrip(c, id) ==
    /\ pc[c] = "idle"
    /\ selectedTrip[c] = NoTrip
    /\ \E t \in activeTrips[c] :
          /\ t.id = id
          /\ selectedTrip' = [selectedTrip EXCEPT ![c] = t]
    /\ UNCHANGED <<vehicle_reservations, trips, user, pc, request, reservations,
                   selectedReservation, toast, activeTrips, rankings, form,
                   reentrant, loading, submitting, vehiclesWithRange>>
    /\ UNCHANGED reportPages

\* The end-trip dialog's Cancel button.
closeEndTripDialog(c) ==
    /\ pc[c] = "idle"
    /\ selectedTrip[c] # NoTrip
    /\ selectedTrip' = [selectedTrip EXCEPT ![c] = NoTrip]
    /\ UNCHANGED <<vehicle_reservations, trips, user, pc, request, reservations,
                   selectedReservation, toast, activeTrips, rankings, form,
                   reentrant, loading, submitting, vehiclesWithRange>>
    /\ UNCHANGED reportPages

\* The End Trip button, enabled while the mileage field is not empty and
\* `submitting` is not set: handleEndTrip up to its await.
handleEndTrip(c, endMileage) ==
    /\ pc[c] = "idle"
    /\ selectedTrip[c] # NoTrip
    /\ endMileage # <<>>
    /\ ~submitting[c]
    /\ IF mileageSchema(endMileage) # Valid
       THEN /\ toast' = Toast(c, mileageSchema(endMileage))
            /\ submitting' = finally([submitting EXCEPT ![c] = TRUE], c)
            /\ UNCHANGED <<pc, request>>
       ELSE LET endMileageNum == parseInt(endMileage)
            IN  IF Less(endMileageNum, selectedTrip[c].start_mileage)
                THEN /\ toast' = Toast(c, "End mileage cannot be less than start mileage")
                     /\ submitting' = finally([submitting EXCEPT ![c] = TRUE], c)
                     /\ UNCHANGED <<pc, request>>
                ELSE /\ pc' = [pc EXCEPT ![c] = "ending"]
                     /\ request' = [request EXCEPT ![c] =
                            [endMileageNum |-> endMileageNum]]
                     /\ submitting' = [submitting EXCEPT ![c] = TRUE]
                     /\ UNCHANGED toast
    /\ UNCHANGED <<vehicle_reservations, trips, user, reservations,
                   selectedReservation, activeTrips, selectedTrip, rankings, form,
                   reentrant, loading, vehiclesWithRange>>
    /\ UNCHANGED reportPages

\* handleEndTrip from its await on: the update, its answer and the refetch.
handleEndTripUpdate(c, err, fetchErr) ==
    /\ pc[c] = "ending"
    /\ pc' = [pc EXCEPT ![c] = "idle"]
    /\ request' = [request EXCEPT ![c] = NoRequest]
    /\ submitting' = finally(submitting, c)
    /\ IF TripUpdateFails(trips, selectedTrip[c].id, err)
       THEN /\ toast' = Toast(c, "Failed to end trip")
            /\ UNCHANGED <<trips, activeTrips, selectedTrip>>
       ELSE /\ trips' = UpdateTripEnd(trips, user[c], selectedTrip[c].id,
                                      request[c].endMileageNum)
            /\ toast' = Toast(c, "Trip ended successfully!")
            /\ selectedTrip' = [selectedTrip EXCEPT ![c] = NoTrip]
            /\ activeTrips' = [activeTrips EXCEPT
                   ![c] = IF fetchErr THEN activeTrips[c]
                          ELSE FetchActiveTrips(trips', user[c])]
    /\ UNCHANGED <<vehicle_reservations, user, reservations, selectedReservation,
                   rankings, form, reentrant, loading, vehiclesWithRange>>
    /\ UNCHANGED reportPages

\* The UserRankings page is loaded on tab c: fetchRankings runs, and the
\* datastore returns the rows in some order.
fetchRankings(c, order, err) ==
    /\ pc[c] = "idle"
    /\ order \in Orders(RankingRows(trips, user[c]))
    /\ LeaveReservations(c)
    /\ activeTrips' = [activeTrips EXCEPT ![c] = {}]
    /\ selectedTrip' = [selectedTrip EXCEPT ![c] = NoTrip]
    /\ rankings' = [rankings EXCEPT
                       ![c] = IF err THEN <<>> ELSE rankingsArray(trips, order)]
    /\ vehiclesWithRange' = [vehiclesWithRange EXCEPT ![c] = {}]
    /\ UNCHANGED <<vehicle_reservations, trips, user, pc, request, toast,
                   reentrant, loading, submitting>>
    /\ UNCHANGED reportPages

\* The TripHistory page is loaded on tab c: fetchTrips runs, and every card
\* shows calculateDistance of its trip.
TripHistory_fetchTrips(c, err) ==
    /\ pc[c] = "idle"
    /\ LeaveReservations(c)
    /\ tripHistory' = [tripHistory EXCEPT
           ![c] = IF err THEN {}
                  ELSE {[id |-> i, distance |-> TripHistory_calculateDistance(trips[i])] :
                           i \in TripsOfUser(trips, user[c], user[c])}]
    /\ toast' = IF err THEN Toast(c, "Erro ao carregar historico de viagens") ELSE toast
    /\ UNCHANGED <<vehicle_reservations, trips, user, pc, request, reentrant>>
    /\ UNCHANGED <<tripPages, vehicles, vehicle_observations, totalMileage, stats,
                   managedVehicles>>

\* An administrator selects a user in UserTripsHistory: fetchUserTrips runs.
fetchUserTrips(c, userId, err) ==
    /\ pc[c] = "idle"
    /\ has_role(user[c], "admin")
    /\ LeaveReservations(c)
    /\ tripHistory' = [tripHistory EXCEPT
           ![c] = IF err THEN tripHistory[c]
                  ELSE {[id |-> i,
                         distance |-> UserTripsHistory_calculateDistance(trips[i])] :
                           i \in TripsOfUser(trips, user[c], userId)}]
    /\ toast' = IF err THEN Toast(c, "Erro ao carregar viagens") ELSE toast
    /\ UNCHANGED <<vehicle_reservations, trips, user, pc, request, reentrant>>
    /\ UNCHANGED <<tripPages, vehicles, vehicle_observations, totalMileage, stats,
                   managedVehicles>>

\* The AdminDashboard page is loaded by an administrator: fetchTrips computes
\* the total from every trip the first query returned, if it returned.
AdminDashboard_fetchTrips(c, err) ==
    /\ pc[c] = "idle"
    /\ has_role(user[c], "admin")
    /\ LeaveReservations(c)
    /\ totalMileage' = [totalMileage EXCEPT
           ![c] = IF err THEN totalMileage[c]
                  ELSE reduceTotalMileage(trips, AllTrips(trips, user[c]))]
    /\ UNCHANGED <<vehicle_reservations, trips, user, pc, request, reentrant, toast>>
    /\ UNCHANGED <<tripPages, vehicles, vehicle_observations, tripHistory, stats,
                   managedVehicles>>

\* The VehicleStats page is loaded on tab c: fetchStats runs its two queries,
\* the trips query returning its rows in some order; an error of either query
\* leaves the state as it was.
fetchStats(c, order, tripsError, issuesError) ==
    /\ pc[c] = "idle"
    /\ order \in Orders(StatsRows(trips, user[c]))
    /\ LeaveReservations(c)
    /\ stats' = [stats EXCEPT
           ![c] = IF tripsError \/ issuesError THEN stats[c]
                  ELSE statsArray(trips, order, vehicle_observations, user[c])]
    /\ UNCHANGED <<vehicle_reservations, trips, user, pc, request, reentrant, toast>>
    /\ UNCHANGED <<tripPages, vehicles, vehicle_observations, tripHistory, totalMileage,
                   managedVehicles>>

\* The StartTrip page is loaded on tab c: fetchVehicles reads the roster and,
\* for every vehicle, its latest trip; `failed` are the vehicles whose trip
\* query failed.
fetchVehicles(c, err, failed) ==
    /\ pc[c] = "idle"
    /\ LeaveReservations(c)
    /\ activeTrips' = [activeTrips EXCEPT ![c] = {}]
    /\ selectedTrip' = [selectedTrip EXCEPT ![c] = NoTrip]
    /\ rankings' = [rankings EXCEPT ![c] = <<>>]
    /\ vehiclesWithRange' = [vehiclesWithRange EXCEPT
           ![c] = IF err THEN {}
                  ELSE {[id |-> v.id,
                         range_remaining |->
                             OrNull(latestRange(trips, user[c], v.id, v.id \in failed))] :
                           v \in vehicles}]
    /\ UNCHANGED <<vehicle_reservations, trips, user, pc, request, reentrant, toast,
                   loading, submitting>>
    /\ UNCHANGED reportPages

\* VehicleManagement's fetchVehicles: every authenticated caller reads the roster
VehicleManagement_fetchVehicles(c, err) ==
    /\ pc[c] = "idle"
    /\ LeaveReservations(c)
    /\ managedVehicles' = [managedVehicles EXCEPT
           ![c] = IF err THEN managedVehicles[c] ELSE vehicles]
    /\ toast' = IF err THEN Toast(c, "Erro ao carregar veiculos") ELSE toast
    /\ UNCHANGED <<vehicle_reservations, trips, user, pc, request, reentrant>>
    /\ UNCHANGED <<tripPages, vehicles, vehicle_observations, tripHistory,
                   totalMileage, stats>>

\* VehicleManagement's handleSubmit, with the request sent under the identity
\* of tab c whatever its role: an update of editingVehicle, or an insert.
VehicleManagement_handleSubmit(c, editingVehicle, formData, err, fetchErr) ==
    /\ pc[c] = "idle"
    /\ LeaveReservations(c)
    /\ IF formData.name = "" \/ formData.license_plate = "" \/ formData.qr_code = ""
       THEN /\ toast' = Toast(c, "Preencha todos os campos")
            /\ UNCHANGED <<vehicles, managedVehicles>>
       ELSE IF editingVehicle # NoVehicle
       THEN LET targets == VehicleUpdateTargets(vehicles, user[c], editingVehicle)
                updated == {[r EXCEPT !.name = formData.name,
                                      !.license_plate = formData.license_plate,
                                      !.qr_code = formData.qr_code] : r \in targets}
            IN  IF err \/ \E r \in updated : ~VehicleUnique(vehicles, r)
                THEN /\ toast' = Toast(c, "Erro ao atualizar veiculo")
                     /\ UNCHANGED <<vehicles, managedVehicles>>
                ELSE /\ vehicles' = (vehicles \ targets) \cup updated
                     /\ toast' = IF fetchErr THEN Toast(c, "Erro ao carregar veiculos")
                                 ELSE Toast(c, "Veiculo atualizado com sucesso")
                     /\ managedVehicles' = [managedVehicles EXCEPT
                            ![c] = IF fetchErr THEN managedVehicles[c] ELSE vehicles']
       ELSE LET free == VehicleIds \ {r.id : r \in vehicles}
                row == [id |-> CHOOSE id \in free : TRUE,
                        name |-> formData.name,
                        license_plate |-> formData.license_plate,
                        qr_code |-> formData.qr_code]
            IN  IF err \/ free = {} \/ ~VehicleInsertPolicy(user[c], row)
                       \/ ~VehicleUnique(vehicles, row)
                THEN /\ toast' = Toast(c, "Erro ao adicionar veiculo")
                     /\ UNCHANGED <<vehicles, managedVehicles>>
                ELSE /\ vehicles' = vehicles \cup {row}
                     /\ toast' = IF fetchErr THEN Toast(c, "Erro ao carregar veiculos")
                                 ELSE Toast(c, "Veiculo adicionado com sucesso")
                     /\ managedVehicles' = [managedVehicles EXCEPT
                            ![c] = IF fetchErr THEN managedVehicles[c] ELSE vehicles']
    /\ UNCHANGED <<vehicle_reservations, trips, user, pc, request, reentrant>>
    /\ UNCHANGED <<tripPages, vehicle_observations, tripHistory, totalMileage, stats>>

\* VehicleManagement's handleDelete, with the request sent under the identity
\* of tab c whatever its role; the rows that reference a removed vehicle go
\* with it.
handleDelete(c, vehicleId, err, fetchErr) ==
    /\ pc[c] = "idle"
    /\ LeaveReservations(c)
    /\ IF err
       THEN /\ toast' = Toast(c, "Erro ao eliminar veiculo")
            /\ UNCHANGED <<vehicles, managedVehicles, trips, vehicle_reservations,
                           vehicle_observations>>
       ELSE LET removed == VehicleDeleteTargets(vehicles, user[c], vehicleId)
            IN  /\ vehicles' = vehicles \ removed
                /\ trips' = Cascade(trips, removed)
                /\ vehicle_reservations' = Cascade(vehicle_reservations, removed)
                /\ vehicle_observations' = Cascade(vehicle_observations, removed)
                /\ toast' = IF fetchErr THEN Toast(c, "Erro ao carregar veiculos")
                            ELSE Toast(c, "Veiculo eliminado com sucesso")
                /\ managedVehicles' = [managedVehicles EXCEPT
                       ![c] = IF fetchErr THEN managedVehicles[c] ELSE vehicles']
    /\ UNCHANGED <<user, pc, request, reentrant>>
    /\ UNCHANGED <<tripPages, tripHistory, totalMileage, stats>>

\* A request of tab c's session to the trips table, whatever the pages send:
\* an insert of a row that names userId as its user, admitted by "Users can
\* create their own trips" and the vehicle_id foreign key.
trips_insert(c, userId, vehicleId) ==
    /\ pc[c] = "idle"
    /\ Len(trips) < MaxTripRows
    /\ LET row == NewTrip(userId, vehicleId, <<"a", "b", "c">>, 5)
       IN  trips' = IF TripInsertPolicy(user[c], row)
                       /\ \E v \in vehicles : v.id = vehicleId
                    THEN Append(trips, row) ELSE trips
    /\ UNCHANGED <<vehicle_reservations, user, pc, request, reservations,
                   selectedReservation, toast, form, reentrant>>
    /\ UNCHANGED <<tripPages, vehicles, vehicle_observations, tripHistory,
                   totalMileage, stats, managedVehicles>>

\* An update by id that closes a trip, under "Users can update their own trips".
trips_update(c, id, endMileage) ==
    /\ pc[c] = "idle"
    /\ id \in 1..Len(trips)
    /\ ~TripUpdateFails(trips, id, FALSE)
    /\ trips' = UpdateTripEnd(trips, user[c], id, endMileage)
    /\ UNCHANGED <<vehicle_reservations, user, pc, request, reservations,
                   selectedReservation, toast, form, reentrant>>
    /\ UNCHANGED <<tripPages, vehicles, vehicle_observations, tripHistory,
                   totalMileage, stats, managedVehicles>>

\* A select of trips with no filter of its own, as AdminDashboard's: the rows
\* "Users can view their own trips" and "Admins can view all trips" let through.
trips_select(c) ==
    /\ pc[c] = "idle"
    /\ tripHistory' = [tripHistory EXCEPT
           ![c] = {[id |-> i, distance |-> UserTripsHistory_calculateDistance(trips[i])] :
                     i \in AllTrips(trips, user[c])}]
    /\ UNCHANGED <<vehicle_reservations, trips, user, pc, request, reservations,
                   selectedReservation, toast, form, reentrant>>
    /\ UNCHANGED <<tripPages, vehicles, vehicle_observations, totalMileage, stats,
                   managedVehicles>>

\* An insert into vehicle_reservations of a row that names userId as its user,
\* admitted by "Users can create their own reservations" and the foreign key.
vehicle_reservations_insert(c, userId, vehicleId) ==
    /\ pc[c] = "idle"
    /\ Len(vehicle_reservations) < MaxReservations
    /\ LET row == NewReservation(userId, vehicleId, DateTime(1, 0), DateTime(1, 1))
       IN  vehicle_reservations' =
               IF ReservationInsertPolicy(user[c], row)
                  /\ \E v \in vehicles : v.id = vehicleId
               THEN Append(vehicle_reservations, row) ELSE vehicle_reservations
    /\ UNCHANGED <<trips, user, pc, request, reservations, selectedReservation,
                   toast, form, reentrant>>
    /\ UNCHANGED otherPages

\* An update of a reservation's status by id, under "Users can update their own
\* reservations" and "Admins can update all reservations".
vehicle_reservations_update(c, id, status) ==
    /\ pc[c] = "idle"
    /\ id \in 1..Len(vehicle_reservations)
    /\ ~UpdateFails(vehicle_reservations, id, FALSE)
    /\ vehicle_reservations' = UpdateReservationStatus(vehicle_reservations, user[c], id, status)
    /\ UNCHANGED <<trips, user, pc, request, reservations, selectedReservation,
                   toast, form, reentrant>>
    /\ UNCHANGED otherPages

\* A select of vehicle_reservations with no filter of its own: the rows "Users
\* can view their own reservations" and "Admins can view all reservations" let
\* through.
vehicle_reservations_select(c) ==
    /\ pc[c] = "idle"
    /\ reservations' = [reservations EXCEPT
           ![c] = {[id |-> i, vehicle_id |-> vehicle_reservations[i].vehicle_id,
                    status |-> vehicle_reservations[i].status] :
                     i \in {j \in 1..Len(vehicle_reservations) :
                              ReservationSelectPolicy(user[c], vehicle_reservations[j])}}]
    /\ UNCHANGED <<vehicle_reservations, trips, user, pc, request,
                   selectedReservation, toast, form, reentrant>>
    /\ UNCHANGED otherPages

Next ==
    \E c \in Clients :
        \/ \E err \in BOOLEAN : Mount(c, err)
        \/ \E v \in VehicleInputs, sd \in DateInputs, st \in TimeInputs,
              ed \in DateInputs, et \in TimeInputs, err \in BOOLEAN :
                handleSubmit(c, v, sd, st, ed, et, err)
        \/ \E err \in BOOLEAN, fetchErr \in BOOLEAN : handleSubmitInsert(c, err, fetchErr)
        \/ \E id \in 1..MaxReservations, err \in BOOLEAN, fetchErr \in BOOLEAN :
                cancelReservation(c, id, err, fetchErr)
        \/ \E id \in 1..MaxReservations : openStartTripDialog(c, id)
        \/ closeStartTripDialog(c)
        \/ \E m \in MileageInputs, err \in BOOLEAN : startTripFromReservation(c, m, err)
        \/ \E err \in BOOLEAN : startTripUpdateReservation(c, err)

Spec == Init /\ [][Next]_vars

\* ------------------------------------------------- admission of one request
\* One createReservation by tab1 against a stored table: the table is any table
\* of at most MaxAdmissionRows rows the schema admits and the pages can produce.
AdmissionDays == 1..MaxAdmissionDay
AdmissionTimes == {DateTime(d, t) : d \in AdmissionDays, t \in Slots}
AdmissionRows ==
    {r \in [user_id : Users, vehicle_id : Vehicles, start_time : AdmissionTimes,
            end_time : AdmissionTimes, status : {"pending", "active", "cancelled"},
            updated_at : {0, 1}] :
        /\ r.start_time < r.end_time
        /\ r.updated_at = (IF r.status = "pending" THEN 0 ELSE 1)}

RECURSIVE Tables(_)
Tables(n) ==
    IF n = 0 THEN {<<>>}
    ELSE Tables(n - 1) \cup
         {Append(t, r) : t \in {u \in Tables(n - 1) : Len(u) = n - 1}, r \in AdmissionRows}

\* the trips the active rows of a table were started with
RECURSIVE TripsOf(_)
TripsOf(rows) ==
    IF rows = <<>> THEN <<>>
    ELSE LET r == rows[Len(rows)]
             before == TripsOf(SubSeq(rows, 1, Len(rows) - 1))
         IN  IF r.status = "active"
             THEN Append(before, NewTrip(r.user_id, r.vehicle_id, Reserva,
                                         parseInt(<<"4", "2">>)))
             ELSE before

InitAdmission ==
    /\ vehicle_reservations \in Tables(MaxAdmissionRows)
    /\ trips = TripsOf(vehicle_reservations)
    /\ user \in {u \in [Clients -> Users] : u["tab2"] = "alice"}
    /\ pc = [c \in Clients |-> "idle"]
    /\ request = [c \in Clients |-> NoRequest]
    /\ reservations = [c \in Clients |-> FetchReservations(vehicle_reservations, user[c])]
    /\ selectedReservation = [c \in Clients |-> NoReservation]
    /\ toast = NoToast
    /\ activeTrips = [c \in Clients |-> {}]
    /\ selectedTrip = [c \in Clients |-> NoTrip]
    /\ rankings = [c \in Clients |-> <<>>]
    /\ vehicles = Roster
    /\ vehicle_observations = <<>>
    /\ form = [c \in Clients |-> IF c = "tab1" THEN FilledForm ELSE NoForm]
    /\ InitViews

NextAdmission ==
    \/ \E v \in Vehicles \cup {""}, sd \in AdmissionDays \cup {NoValue},
          st \in TimeInputs, ed \in AdmissionDays \cup {NoValue},
          et \in TimeInputs, err \in BOOLEAN :
            toast = NoToast /\ handleSubmit("tab1", v, sd, st, ed, et, err)
    \/ \E err \in BOOLEAN, fetchErr \in BOOLEAN : handleSubmitInsert("tab1", err, fetchErr)

SpecAdmission == InitAdmission /\ [][NextAdmission]_vars

\* ------------------------------------------------- one start of a trip
\* One submission of the StartTrip form by tab1 against a stored trips table:
\* the table is empty or holds one trip, open or closed, of either user.
Repeat(ch, n) == [i \in 1..n |-> ch]

DestinationInputs ==
    {<<>>, <<"a", "b">>, <<" ", "a", "b", " ">>, <<"a", "b", "c">>,
     <<" ", "a", "b", "c", " ">>, Repeat("a", MaxDestination),
     Repeat("a", MaxDestination + 1), <<" ">> \o Repeat("a", MaxDestination)}

StartMileageInputs ==
    {<<>>, <<"-", "1">>, <<"0">>, <<"4", "2">>, <<"9", "9", "9", "9", "9", "9">>,
     <<"1", "0", "0", "0", "0", "0", "0">>, <<"1", ".", "5">>, <<"1", "e", "3">>,
     <<".", "5", "e", "1">>, <<"k", "m">>}

\* a trip as handleEndTrip leaves it after one successful update
ClosedTrip(row, endMileage) ==
    UpdateTripEnd(<<row>>, row.user_id, 1, endMileage)[1]

StartTripTables ==
    {<<>>} \cup
    UNION {{<<NewTrip(u, "VEHICLE-001", <<"a", "b", "c">>, 5)>>,
            <<ClosedTrip(NewTrip(u, "VEHICLE-001", <<"a", "b", "c">>, 5), 7)>>} :
           u \in Users}

InitStartTrip ==
    /\ vehicle_reservations = <<>>
    /\ trips \in StartTripTables
    /\ user \in {u \in [Clients -> Users] : u["tab2"] = "alice"}
    /\ pc = [c \in Clients |-> "idle"]
    /\ request = [c \in Clients |-> NoRequest]
    /\ reservations = [c \in Clients |-> {}]
    /\ selectedReservation = [c \in Clients |-> NoReservation]
    /\ toast = NoToast
    /\ activeTrips = [c \in Clients |-> {}]
    /\ selectedTrip = [c \in Clients |-> NoTrip]
    /\ rankings = [c \in Clients |-> <<>>]
    /\ vehicles = Roster
    /\ vehicle_observations = <<>>
    /\ form = [c \in Clients |-> NoForm]
    /\ InitViews

NextStartTrip ==
    \/ \E v \in Vehicles \cup {""}, d \in DestinationInputs, m \in StartMileageInputs :
            toast = NoToast /\ StartTrip_handleSubmit("tab1", v, d, m)
    \/ \E err \in BOOLEAN : StartTrip_handleSubmitInsert("tab1", err)

SpecStartTrip == InitStartTrip /\ [][NextStartTrip]_vars

\* ------------------------------------------------------- the life of trips
\* Trips are started from the StartTrip page or from a pending reservation and
\* ended from the ActiveTrips page, by two tabs; the run starts with one
\* pending reservation of alice, loaded by every tab that shows her rows.
TripStartMileageInputs == {<<>>, <<"5">>, <<"-", "1">>}
EndMileageInputs == {<<"3">>, <<"9">>, <<".", "5", "e", "1">>,
                     <<"1", "0", "0", "0", "0", "0", "0">>}

InitTrips ==
    /\ vehicle_reservations =
           <<NewReservation("alice", "VEHICLE-001", DateTime(1, 0), DateTime(1, 1))>>
    /\ trips = <<>>
    /\ user \in {u \in [Clients -> Users] : u["tab1"] = "alice"}
    /\ pc = [c \in Clients |-> "idle"]
    /\ request = [c \in Clients |-> NoRequest]
    /\ reservations = [c \in Clients |-> FetchReservations(vehicle_reservations, user[c])]
    /\ selectedReservation = [c \in Clients |-> NoReservation]
    /\ toast = NoToast
    /\ activeTrips = [c \in Clients |-> {}]
    /\ selectedTrip = [c \in Clients |-> NoTrip]
    /\ rankings = [c \in Clients |-> <<>>]
    /\ vehicles = Roster
    /\ vehicle_observations = <<>>
    /\ form = [c \in Clients |-> NoForm]
    /\ InitViews

NextTrips ==
    \E c \in Clients :
        \/ StartTrip_handleSubmit(c, "VEHICLE-001", <<"a", "b", "c">>, <<"7">>)
        \/ \E err \in BOOLEAN : StartTrip_handleSubmitInsert(c, err)
        \/ \E err \in BOOLEAN : ActiveTrips_Mount(c, err)
        \/ \E id \in 1..MaxTripRows : setSelectedTrip(c, id)
        \/ closeEndTripDialog(c)
        \/ \E m \in EndMileageInputs : handleEndTrip(c, m)
        \/ \E err \in BOOLEAN, fetchErr \in BOOLEAN : handleEndTripUpdate(c, err, fetchErr)
        \/ \E id \in 1..MaxReservations : openStartTripDialog(c, id)
        \/ closeStartTripDialog(c)
        \/ \E m \in TripStartMileageInputs, err \in BOOLEAN :
                startTripFromReservation(c, m, err)
        \/ \E err \in BOOLEAN : startTripUpdateReservation(c, err)

SpecTrips == InitTrips /\ [][NextTrips]_vars

\* -------------------------------------------------- one load of the ranking
\* One load of the UserRankings page by tab1 against a stored trips table of at
\* most MaxRankingTrips rows: open trips, trips closed with an end mileage, and
\* trips closed without one.
RankingMileages == 0..MaxRankingMileage

RankingTrips ==
    {ClosedTrip(NewTrip(t[1], "VEHICLE-001", <<"a", "b", "c">>, t[2]), t[3]) :
        t \in {x \in Users \X RankingMileages \X (RankingMileages \cup {NaN}) :
                  x[3] = NaN \/ x[3] >= x[2]}}
    \cup {NewTrip(u, "VEHICLE-001", <<"a", "b", "c">>, sm) :
             u \in Users, sm \in RankingMileages}

RECURSIVE RankingTables(_)
RankingTables(n) ==
    IF n = 0 THEN {<<>>}
    ELSE RankingTables(n - 1) \cup
         {Append(t, r) : t \in {u \in RankingTables(n - 1) : Len(u) = n - 1},
                         r \in RankingTrips}

InitRankings ==
    /\ vehicle_reservations = <<>>
    /\ trips \in RankingTables(MaxRankingTrips)
    /\ user \in {u \in [Clients -> Users] : u["tab2"] = "alice"}
    /\ pc = [c \in Clients |-> "idle"]
    /\ request = [c \in Clients |-> NoRequest]
    /\ reservations = [c \in Clients |-> {}]
    /\ selectedReservation = [c \in Clients |-> NoReservation]
    /\ toast = NoToast
    /\ activeTrips = [c \in Clients |-> {}]
    /\ selectedTrip = [c \in Clients |-> NoTrip]
    /\ rankings = [c \in Clients |-> <<>>]
    /\ vehicles = Roster
    /\ vehicle_observations = <<>>
    /\ form = [c \in Clients |-> NoForm]
    /\ InitViews

NextRankings ==
    \E order \in Orders(RankingRows(trips, user["tab1"])), err \in BOOLEAN :
        rankings["tab1"] = <<>> /\ fetchRankings("tab1", order, err)

SpecRankings == InitRankings /\ [][NextRankings]_vars

\* ------------------------------------------------ one load of the histories
\* One load of a history page or of the dashboard by either tab against a
\* stored trips table, drawn as for the ranking.
InitHistory ==
    /\ vehicle_reservations = <<>>
    /\ trips \in RankingTables(MaxRankingTrips)
    /\ user \in {u \in [Clients -> Users] : u["tab1"] = "alice" /\ u["tab2"] = "bob"}
    /\ pc = [c \in Clients |-> "idle"]
    /\ request = [c \in Clients |-> NoRequest]
    /\ reservations = [c \in Clients |-> {}]
    /\ selectedReservation = [c \in Clients |-> NoReservation]
    /\ toast = NoToast
    /\ activeTrips = [c \in Clients |-> {}]
    /\ selectedTrip = [c \in Clients |-> NoTrip]
    /\ rankings = [c \in Clients |-> <<>>]
    /\ vehicles = Roster
    /\ vehicle_observations = <<>>
    /\ form = [c \in Clients |-> NoForm]
    /\ InitViews

NextHistory ==
    \E c \in Clients :
        /\ toast = NoToast
        /\ tripHistory = [d \in Clients |-> {}]
        /\ totalMileage = [d \in Clients |-> 0]
        /\ \/ \E err \in BOOLEAN : TripHistory_fetchTrips(c, err)
           \/ \E u \in Users, err \in BOOLEAN : fetchUserTrips(c, u, err)
           \/ \E err \in BOOLEAN : AdminDashboard_fetchTrips(c, err)

SpecHistory == InitHistory /\ [][NextHistory]_vars

\* ------------------------------------------------ one load of the statistics
\* One load of the VehicleStats page by tab1 against stored tables: at most
\* MaxStatsTrips trips, open or closed, of either user on either vehicle, and
\* at most MaxStatsObservations observations.
StatsTrips ==
    {ClosedTrip(NewTrip(t[1], t[2], <<"a", "b", "c">>, t[3]), t[4]) :
        t \in {x \in Users \X Vehicles \X RankingMileages \X RankingMileages :
                  x[4] >= x[3]}}
    \cup {NewTrip(u, v, <<"a", "b", "c">>, 0) : u \in Users, v \in Vehicles}

RECURSIVE StatsTables(_)
StatsTables(n) ==
    IF n = 0 THEN {<<>>}
    ELSE StatsTables(n - 1) \cup
         {Append(t, r) : t \in {u \in StatsTables(n - 1) : Len(u) = n - 1},
                         r \in StatsTrips}

\* an observation as AddObservationDialog inserts it, and as an administrator
\* may have resolved it
Observations ==
    {[vehicle_id |-> v, user_id |-> u, observation_type |-> t[1], is_resolved |-> t[2]] :
        v \in Vehicles, u \in Users,
        t \in {<<"issue", FALSE>>, <<"issue", TRUE>>, <<"note", FALSE>>,
               <<"maintenance", FALSE>>}}

RECURSIVE ObservationTables(_)
ObservationTables(n) ==
    IF n = 0 THEN {<<>>}
    ELSE ObservationTables(n - 1) \cup
         {Append(t, r) : t \in {u \in ObservationTables(n - 1) : Len(u) = n - 1},
                         r \in Observations}

InitStats ==
    /\ vehicle_reservations = <<>>
    /\ trips \in StatsTables(MaxStatsTrips)
    /\ user \in {u \in [Clients -> Users] : u["tab2"] = "alice"}
    /\ pc = [c \in Clients |-> "idle"]
    /\ request = [c \in Clients |-> NoRequest]
    /\ reservations = [c \in Clients |-> {}]
    /\ selectedReservation = [c \in Clients |-> NoReservation]
    /\ toast = NoToast
    /\ activeTrips = [c \in Clients |-> {}]
    /\ selectedTrip = [c \in Clients |-> NoTrip]
    /\ rankings = [c \in Clients |-> <<>>]
    /\ vehicles = Roster
    /\ vehicle_observations \in ObservationTables(MaxStatsObservations)
    /\ form = [c \in Clients |-> NoForm]
    /\ InitViews

NextStats ==
    \E order \in Orders(StatsRows(trips, user["tab1"])),
       tripsError \in BOOLEAN, issuesError \in BOOLEAN :
        stats["tab1"] = <<>> /\ fetchStats("tab1", order, tripsError, issuesError)

SpecStats == InitStats /\ [][NextStats]_vars

\* ---------------------------------------------- one visit of the StartTrip page
\* tab1 loads the StartTrip page against a stored trips table of at most
\* MaxRangeTrips rows, with and without a recorded range, and submits the form.
RangeInputs == {NULL, 0, LowRange - 1, LowRange}

RangeTrips ==
    {[NewTrip(u, v, <<"a", "b", "c">>, 5) EXCEPT !.range_remaining = r] :
        u \in Users, v \in Vehicles, r \in RangeInputs}
    \cup {[ClosedTrip(NewTrip(u, v, <<"a", "b", "c">>, 5), 7)
              EXCEPT !.range_remaining = r] :
             u \in Users, v \in Vehicles, r \in RangeInputs}

RECURSIVE RangeTables(_)
RangeTables(n) ==
    IF n = 0 THEN {<<>>}
    ELSE RangeTables(n - 1) \cup
         {Append(t, r) : t \in {u \in RangeTables(n - 1) : Len(u) = n - 1},
                         r \in RangeTrips}

InitLowRange ==
    /\ vehicle_reservations = <<>>
    /\ trips \in RangeTables(MaxRangeTrips)
    /\ user \in {u \in [Clients -> Users] : u["tab2"] = "alice"}
    /\ pc = [c \in Clients |-> "idle"]
    /\ request = [c \in Clients |-> NoRequest]
    /\ reservations = [c \in Clients |-> {}]
    /\ selectedReservation = [c \in Clients |-> NoReservation]
    /\ toast = NoToast
    /\ activeTrips = [c \in Clients |-> {}]
    /\ selectedTrip = [c \in Clients |-> NoTrip]
    /\ rankings = [c \in Clients |-> <<>>]
    /\ vehicles = Roster
    /\ vehicle_observations = <<>>
    /\ form = [c \in Clients |-> NoForm]
    /\ InitViews

NextLowRange ==
    \/ \E err \in BOOLEAN, failed \in SUBSET Vehicles :
            vehiclesWithRange["tab1"] = {} /\ fetchVehicles("tab1", err, failed)
    \/ \E v \in Vehicles :
            /\ toast = NoToast
            /\ vehiclesWithRange["tab1"] # {}
            /\ StartTrip_handleSubmit("tab1", v, <<"a", "b", "c">>, <<"7">>)
    \/ \E err \in BOOLEAN : StartTrip_handleSubmitInsert("tab1", err)

SpecLowRange == InitLowRange /\ [][NextLowRange]_vars

\* ------------------------------------------------------ changes of the roster
\* alice (no admin role) on tab1 and bob (admin) on tab2 send roster requests;
\* the run starts from the seeded roster with one trip, one reservation and
\* one observation that reference its vehicles.
FormDataInputs ==
    {[name |-> "", license_plate |-> "", qr_code |-> ""],
     [name |-> "Van", license_plate |-> "NEW-001", qr_code |-> "VEHICLE-003"],
     [name |-> "Van", license_plate |-> "ABC-123", qr_code |-> "VEHICLE-003"]}

InitRoster ==
    /\ vehicle_reservations =
           <<NewReservation("alice", "VEHICLE-002", DateTime(1, 0), DateTime(1, 1))>>
    /\ trips = <<NewTrip("alice", "VEHICLE-001", <<"a", "b", "c">>, 5)>>
    /\ user = [c \in Clients |-> IF c = "tab1" THEN "alice" ELSE "bob"]
    /\ pc = [c \in Clients |-> "idle"]
    /\ request = [c \in Clients |-> NoRequest]
    /\ reservations = [c \in Clients |-> {}]
    /\ selectedReservation = [c \in Clients |-> NoReservation]
    /\ toast = NoToast
    /\ activeTrips = [c \in Clients |-> {}]
    /\ selectedTrip = [c \in Clients |-> NoTrip]
    /\ rankings = [c \in Clients |-> <<>>]
    /\ vehicles = Roster
    /\ vehicle_observations =
           <<[vehicle_id |-> "VEHICLE-001", user_id |-> "alice",
              observation_type |-> "issue", is_resolved |-> FALSE]>>
    /\ form = [c \in Clients |-> NoForm]
    /\ InitViews

NextRoster ==
    \E c \in Clients :
        \/ \E err \in BOOLEAN : VehicleManagement_fetchVehicles(c, err)
        \/ \E editingVehicle \in VehicleIds \cup {NoVehicle}, formData \in FormDataInputs,
              err \in BOOLEAN, fetchErr \in BOOLEAN :
                VehicleManagement_handleSubmit(c, editingVehicle, formData, err, fetchErr)
        \/ \E vehicleId \in VehicleIds, err \in BOOLEAN, fetchErr \in BOOLEAN :
                handleDelete(c, vehicleId, err, fetchErr)

SpecRoster == InitRoster /\ [][NextRoster]_vars

\* ------------------------------------------------- requests under ownership
\* alice (no admin role) on tab1 and bob (admin) on tab2 send writes to the
\* trips and vehicle_reservations tables that name either user and any row, and
\* either may ask for the deletion of a vehicle; the queries are alice's.
InitOwnership ==
    /\ vehicle_reservations = <<>>
    /\ trips = <<>>
    /\ user = [c \in Clients |-> IF c = "tab1" THEN "alice" ELSE "bob"]
    /\ pc = [c \in Clients |-> "idle"]
    /\ request = [c \in Clients |-> NoRequest]
    /\ reservations = [c \in Clients |-> {}]
    /\ selectedReservation = [c \in Clients |-> NoReservation]
    /\ toast = NoToast
    /\ activeTrips = [c \in Clients |-> {}]
    /\ selectedTrip = [c \in Clients |-> NoTrip]
    /\ rankings = [c \in Clients |-> <<>>]
    /\ vehicles = Roster
    /\ vehicle_observations = <<>>
    /\ form = [c \in Clients |-> NoForm]
    /\ InitViews

NextOwnership ==
    \E c \in Clients :
        \/ \E userId \in Users, vehicleId \in Vehicles : trips_insert(c, userId, vehicleId)
        \/ \E id \in 1..MaxTripRows : trips_update(c, id, 9)
        \/ ~has_role(user[c], "admin") /\ trips_select(c)
        \/ \E userId \in Users : vehicle_reservations_insert(c, userId, "VEHICLE-001")
        \/ \E id \in 1..MaxReservations : vehicle_reservations_update(c, id, "cancelled")
        \/ ~has_role(user[c], "admin") /\ vehicle_reservations_select(c)
        \/ handleDelete(c, "VEHICLE-001", FALSE, FALSE)

SpecOwnership == InitOwnership /\ [][NextOwnership]_vars

\* ------------------------------------------------------ the in-flight flags
\* Two tabs start trips from the StartTrip page, with inputs that take each of
\* handleSubmit's paths, and end them from the ActiveTrips page; a datastore
\* call that has been sent is answered, with or without an error.
GuardVehicles == {"", "VEHICLE-001"}
GuardDestinations == {<<>>, <<"a", "b", "c">>}
GuardMileages == {<<"-", "1">>, <<"7">>}

NextGuard ==
    \E c \in Clients :
        \/ \E v \in GuardVehicles, d \in GuardDestinations, m \in GuardMileages :
                StartTrip_handleSubmit(c, v, d, m)
        \/ \E err \in BOOLEAN : StartTrip_handleSubmitInsert(c, err)
        \/ \E err \in BOOLEAN : ActiveTrips_Mount(c, err)
        \/ \E id \in 1..MaxTripRows : setSelectedTrip(c, id)
        \/ \E m \in EndMileageInputs : handleEndTrip(c, m)
        \/ \E err \in BOOLEAN, fetchErr \in BOOLEAN : handleEndTripUpdate(c, err, fetchErr)

SpecGuard ==
    /\ InitTrips
    /\ [][NextGuard]_vars
    /\ \A c \in Clients :
          /\ WF_vars(\E err \in BOOLEAN : StartTrip_handleSubmitInsert(c, err))
          /\ WF_vars(\E err \in BOOLEAN, fetchErr \in BOOLEAN :
                        handleEndTripUpdate(c, err, fetchErr))

\* ------------------------------------------------- clicks during a request
\* alice, on tab1, starts trips from her pending reservation and may click the
\* dialog's button again while an invocation is in flight.
NextReentry ==
    \/ \E err \in BOOLEAN : Mount("tab1", err)
    \/ \E id \in 1..MaxReservations : openStartTripDialog("tab1", id)
    \/ closeStartTripDialog("tab1")
    \/ \E m \in TripStartMileageInputs, err \in BOOLEAN :
            startTripFromReservation("tab1", m, err)
    \/ \E err \in BOOLEAN : startTripUpdateReservation("tab1", err)
    \/ \E m \in TripStartMileageInputs, err \in BOOLEAN :
            startTripFromReservation_Reentrant("tab1", m, err)
    \/ \E err \in BOOLEAN : startTripUpdateReservation_Reentrant("tab1", err)

SpecReentry == InitTrips /\ [][NextReentry]_vars

\* ------------------------------------------- a reservation after its trip
\* bob, on tab2, starts a trip from his pending reservation of VEHICLE-001 and
\* ends it; alice, on tab1, and bob ask for the same vehicle and window.
InitCompletion ==
    /\ vehicle_reservations =
           <<NewReservation("bob", "VEHICLE-001", DateTime(1, 0), DateTime(1, 1))>>
    /\ trips = <<>>
    /\ user = [c \in Clients |-> IF c = "tab1" THEN "alice" ELSE "bob"]
    /\ pc = [c \in Clients |-> "idle"]
    /\ request = [c \in Clients |-> NoRequest]
    /\ reservations = [c \in Clients |-> FetchReservations(vehicle_reservations, user[c])]
    /\ selectedReservation = [c \in Clients |-> NoReservation]
    /\ toast = NoToast
    /\ activeTrips = [c \in Clients |-> {}]
    /\ selectedTrip = [c \in Clients |-> NoTrip]
    /\ rankings = [c \in Clients |-> <<>>]
    /\ vehicles = Roster
    /\ vehicle_observations = <<>>
    /\ form = [c \in Clients |-> NoForm]
    /\ InitViews

NextCompletion ==
    \E c \in Clients :
        \/ \E err \in BOOLEAN : Mount(c, err)
        \/ \E err \in BOOLEAN : handleSubmit(c, "VEHICLE-001", 1, 0, 1, 1, err)
        \/ \E err \in BOOLEAN, fetchErr \in BOOLEAN : handleSubmitInsert(c, err, fetchErr)
        \/ \E id \in 1..MaxReservations : openStartTripDialog(c, id)
        \/ \E err \in BOOLEAN : startTripFromReservation(c, <<"5">>, err)
        \/ \E err \in BOOLEAN : startTripUpdateReservation(c, err)
        \/ \E err \in BOOLEAN : ActiveTrips_Mount(c, err)
        \/ \E id \in 1..MaxTripRows : setSelectedTrip(c, id)
        \/ handleEndTrip(c, <<"9">>)
        \/ \E err \in BOOLEAN, fetchErr \in BOOLEAN : handleEndTripUpdate(c, err, fetchErr)

SpecCompletion == InitCompletion /\ [][NextCompletion]_vars

\* ---------------------------------------------------------------- claims
Live(row) == row.status \in {"pending", "active"}
\* the inclusive-bound overlap test of the specification
Overlaps(row, start, end) == row.start_time <= end /\ row.end_time >= start
ReservationIds == 1..Len(vehicle_reservations)

\* C1: no two pending or active reservations of the same vehicle have overlapping
\* time windows, in any state reached by any interleaving of the clients' operations.
C1_NoOverlappingLiveReservations ==
    \A i \in ReservationIds, j \in ReservationIds :
        (/\ i # j
         /\ vehicle_reservations[i].vehicle_id = vehicle_reservations[j].vehicle_id
         /\ Live(vehicle_reservations[i]) /\ Live(vehicle_reservations[j]))
        => ~Overlaps(vehicle_reservations[i], vehicle_reservations[j].start_time,
                     vehicle_reservations[j].end_time)

\* C2: when another user holds a pending or active reservation of the vehicle that
\* overlaps the requested window, a non-admin caller's availability check answers
\* false (the request is rejected).
C2_OtherUsersReservationRejects ==
    \A c \in Clients :
        (/\ pc[c] = "checked"
         /\ ~has_role(user[c], "admin")
         /\ \E i \in ReservationIds :
               /\ vehicle_reservations[i].user_id # user[c]
               /\ vehicle_reservations[i].vehicle_id = request[c].vehicle_id
               /\ Live(vehicle_reservations[i])
               /\ Overlaps(vehicle_reservations[i], request[c].start_time,
                           request[c].end_time))
        => ~request[c].isAvailable

\* the form inputs of the admission runs
FormVehicles == Vehicles \cup {""}
FormDates == AdmissionDays \cup {NoValue}
FormTimes == Slots \cup {NoValue}

\* C3: the availability check answers false whenever some pending or active
\* reservation of the same vehicle, visible to the caller, satisfies
\* start <= candidate end and end >= candidate start (boundary touch included).
C3_OverlapRejected ==
    \A c \in Clients :
        (/\ pc[c] = "checked"
         /\ \E i \in ReservationIds :
               /\ ReservationSelectPolicy(user[c], vehicle_reservations[i])
               /\ vehicle_reservations[i].vehicle_id = request[c].vehicle_id
               /\ Live(vehicle_reservations[i])
               /\ Overlaps(vehicle_reservations[i], request[c].start_time,
                           request[c].end_time))
        => ~request[c].isAvailable

\* C3 witness: a visible pending reservation ends exactly where the request starts,
\* and the check has answered false.
C3_Witness ==
    \E c \in Clients, i \in ReservationIds :
        /\ pc[c] = "checked"
        /\ ~request[c].isAvailable
        /\ ReservationSelectPolicy(user[c], vehicle_reservations[i])
        /\ vehicle_reservations[i].vehicle_id = request[c].vehicle_id
        /\ vehicle_reservations[i].status = "pending"
        /\ vehicle_reservations[i].end_time = request[c].start_time

\* C4: a request with start < end is found available, when the query does not
\* error, if no pending or active reservation of the same vehicle overlaps it.
C4_AdmittedWhenNoOverlap ==
    [][\A c \in Clients, v \in Vehicles, sd \in AdmissionDays, st \in Slots,
          ed \in AdmissionDays, et \in Slots :
            (/\ handleSubmit(c, v, sd, st, ed, et, FALSE)
             /\ DateTime(sd, st) < DateTime(ed, et)
             /\ ~\E i \in ReservationIds :
                    /\ vehicle_reservations[i].vehicle_id = v
                    /\ Live(vehicle_reservations[i])
                    /\ Overlaps(vehicle_reservations[i], DateTime(sd, st), DateTime(ed, et)))
            => request'[c].isAvailable]_vars

\* C5: a submission with a missing vehicle, date or time, or with start >= end,
\* issues no availability query and no insert: the tables are unchanged and no
\* request is left in flight.
C5_InvalidSubmissionInsertsNothing ==
    [][\A c \in Clients, v \in FormVehicles, sd \in FormDates, st \in FormTimes,
          ed \in FormDates, et \in FormTimes, err \in BOOLEAN :
            (/\ handleSubmit(c, v, sd, st, ed, et, err)
             /\ \/ v = "" \/ sd = NoValue \/ st = NoValue \/ ed = NoValue \/ et = NoValue
                \/ DateTime(sd, st) >= DateTime(ed, et))
            => /\ vehicle_reservations' = vehicle_reservations
               /\ trips' = trips
               /\ pc'[c] = "idle"
               /\ request'[c] = NoRequest]_vars

\* C5 witness: a submission was refused because its start is not before its end.
C5_Witness ==
    /\ toast = "A data de inicio deve ser anterior a data de fim"
    /\ pc["tab1"] = "idle"
    /\ vehicle_reservations # <<>>

\* C6: when the availability check answered false, the handler ends with the
\* conflict notification: no row is inserted, every row keeps its status and
\* window, and no new query or insert is in flight for it.
C6_ConflictInsertsNothing ==
    [][\A c \in Clients :
            (pc[c] = "checked" /\ ~request[c].isAvailable /\ pc'[c] # "checked")
            => /\ vehicle_reservations' = vehicle_reservations
               /\ trips' = trips
               /\ toast' = "Veiculo nao disponivel no periodo selecionado"
               /\ pc'[c] = "idle"
               /\ request'[c] = NoRequest]_vars

\* C6 witness: a request was refused as unavailable and the table still holds
\* exactly the rows it held.
C6_Witness ==
    /\ toast = "Veiculo nao disponivel no periodo selecionado"
    /\ \A c \in Clients : pc[c] = "idle"
    /\ Len(vehicle_reservations) = 1

\* C7: every reservation is created pending, and the only status changes that
\* ever occur are pending -> active and pending -> cancelled.
C7_StatusLifecycle ==
    [][/\ \A i \in 1..Len(vehicle_reservations') :
            IF i \in ReservationIds
            THEN (vehicle_reservations'[i].status # vehicle_reservations[i].status)
                 => /\ vehicle_reservations[i].status = "pending"
                    /\ vehicle_reservations'[i].status \in {"active", "cancelled"}
            ELSE vehicle_reservations'[i].status = "pending"]_vars

\* C8: a reservation whose stored status is active or completed is not changed
\* to cancelled.
C8_CancelOnlyWhilePending ==
    [][\A i \in ReservationIds :
            vehicle_reservations[i].status \in {"active", "completed"}
            => vehicle_reservations'[i].status # "cancelled"]_vars

\* C9: cancelReservation on a reservation that is already stored as cancelled
\* leaves its status cancelled, and changes no other reservation row, no
\* column of the row but updated_at, and no trip row.
C9_SecondCancelKeepsState ==
    [][\A c \in Clients, id \in ReservationIds, err \in BOOLEAN, fetchErr \in BOOLEAN :
            (/\ vehicle_reservations[id].status = "cancelled"
             /\ cancelReservation(c, id, err, fetchErr))
            => /\ Len(vehicle_reservations') = Len(vehicle_reservations)
               /\ vehicle_reservations'[id].status = "cancelled"
               /\ [vehicle_reservations'[id] EXCEPT !.updated_at = 0]
                    = [vehicle_reservations[id] EXCEPT !.updated_at = 0]
               /\ \A j \in ReservationIds \ {id} :
                     vehicle_reservations'[j] = vehicle_reservations[j]
               /\ trips' = trips]_vars

\* C9 witness: a reservation has been cancelled twice (two updates, and no trip
\* was ever started, so neither update was a trip start).
C9_Witness ==
    /\ trips = <<>>
    /\ \E i \in ReservationIds :
          /\ vehicle_reservations[i].status = "cancelled"
          /\ vehicle_reservations[i].updated_at = 2

\* C10: when startTripFromReservation finishes after having inserted its trip,
\* the reservation it was started from is active.
C10_TripImpliesActive ==
    [][\A c \in Clients :
            (pc[c] = "tripInserted" /\ pc'[c] = "idle")
            => vehicle_reservations'[selectedReservation[c].id].status = "active"]_vars

\* the submitted mileage is an integer m with 0 <= m <= 999999
IsMileage(s) == s # <<>> /\ Number(s) \in 0..MaxMileage
TripIds == 1..Len(trips)

\* C11: given a valid destination, a selected vehicle and a datastore that
\* takes the insert, startTrip creates the trip exactly when the submitted
\* mileage is an integer m with 0 <= m <= 999999.
C11_MileageAcceptedIffInRange ==
    [][\A c \in Clients, v \in Vehicles, d \in DestinationInputs,
          m \in StartMileageInputs :
            (/\ StartTrip_handleSubmitInsert(c, FALSE)
             /\ request[c] = [selectedVehicle |-> v, destination |-> d,
                              startMileage |-> m]
             /\ Len(trips) < MaxTripRows)
            => (Len(trips') = Len(trips) + 1 <=> IsMileage(m))]_vars

\* C12: a submission whose destination has fewer than 3 or more than 200
\* characters after trimming, whose mileage is outside the accepted range, or
\* that has no vehicle selected inserts nothing: both tables are unchanged.
C12_InvalidStartInsertsNothing ==
    [][\A c \in Clients, v \in Vehicles \cup {""}, d \in DestinationInputs,
          m \in StartMileageInputs :
            (/\ StartTrip_handleSubmit(c, v, d, m)
             /\ \/ Len(trim(d)) < MinDestination
                \/ Len(trim(d)) > MaxDestination
                \/ Number(m) \notin 0..MaxMileage
                \/ v = "")
            => /\ pc'[c] = "idle"
               /\ trips' = trips
               /\ vehicle_reservations' = vehicle_reservations]_vars

\* C12 witness: a submission was refused for its destination while the table
\* holds a trip.
C12_Witness ==
    /\ toast = "Destination must be at least 3 characters"
    /\ Len(trips) = 1

\* C13: a successful startTrip appends exactly one row: the caller's, for the
\* selected vehicle, active, end_mileage and end_time unset, the trimmed
\* destination, and start_mileage the numeric value of the submitted mileage;
\* every other row is unchanged.
C13_StartTripRow ==
    [][\A c \in Clients, v \in Vehicles, d \in DestinationInputs,
          m \in StartMileageInputs :
            (/\ StartTrip_handleSubmitInsert(c, FALSE)
             /\ request[c] = [selectedVehicle |-> v, destination |-> d,
                              startMileage |-> m]
             /\ trips' # trips)
            => /\ Len(trips') = Len(trips) + 1
               /\ SubSeq(trips', 1, Len(trips)) = trips
               /\ trips'[Len(trips')].user_id = user[c]
               /\ trips'[Len(trips')].vehicle_id = v
               /\ trips'[Len(trips')].destination = trim(d)
               /\ trips'[Len(trips')].is_active
               /\ trips'[Len(trips')].end_mileage = NULL
               /\ trips'[Len(trips')].end_time = NULL
               /\ trips'[Len(trips')].start_mileage = Number(m)]_vars

\* C14: every trip's start_mileage is an integer in 0..999999 and every set
\* end_mileage is an integer in 0..999999, whichever operation wrote it.
C14_MileagesInRange ==
    \A i \in TripIds :
        /\ trips[i].start_mileage \in 0..MaxMileage
        /\ trips[i].end_mileage # NULL => trips[i].end_mileage \in 0..MaxMileage

\* C15: every trip's end_mileage is absent or >= its start_mileage, and an
\* endTrip attempt whose mileage is smaller than the trip's recorded start
\* mileage issues no update: the trips table is left as it was.
C15_EndNotBelowStart ==
    [][/\ \A i \in 1..Len(trips') :
             \/ trips'[i].end_mileage = NULL
             \/ trips'[i].end_mileage >= trips'[i].start_mileage
       /\ \A c \in Clients, m \in EndMileageInputs :
               (/\ handleEndTrip(c, m)
                /\ Number(m) \notin {NaN, NotInteger}
                /\ Number(m) < trips[selectedTrip[c].id].start_mileage)
               => pc'[c] = "idle"]_vars

\* C16: a trip is active if and only if its end_mileage and end_time are both
\* unset: a trip is created active with both unset, and is_active and end_time
\* change only together, in the one update that also writes end_mileage.
C16_ActiveIffOpen ==
    [][/\ \A i \in 1..Len(trips') :
             trips'[i].is_active
                <=> (trips'[i].end_mileage = NULL /\ trips'[i].end_time = NULL)
       /\ \A i \in TripIds :
             (trips'[i].end_mileage # trips[i].end_mileage
                  \/ trips'[i].is_active # trips[i].is_active)
             => (~trips'[i].is_active /\ trips'[i].end_time # trips[i].end_time)]_vars

\* C16 witness: one trip has been closed with an end mileage while another is
\* still open.
C16_Witness ==
    \E i \in TripIds, j \in TripIds :
        /\ ~trips[i].is_active /\ trips[i].end_mileage = 9 /\ trips[i].end_time # NULL
        /\ trips[j].is_active

\* C17: once a trip is closed, no operation of any tab makes it active again
\* or changes its end_mileage or end_time.
C17_ClosedStaysClosed ==
    [][\A i \in TripIds :
            ~trips[i].is_active
            => /\ ~trips'[i].is_active
               /\ trips'[i].end_mileage = trips[i].end_mileage
               /\ trips'[i].end_time = trips[i].end_time]_vars

RECURSIVE SumOver(_, _)
\* the sum of end_mileage - start_mileage over the rows of a set of ids
SumOver(rows, ids) ==
    IF ids = {} THEN 0
    ELSE LET i == CHOOSE j \in ids : TRUE
         IN  (rows[i].end_mileage - rows[i].start_mileage) + SumOver(rows, ids \ {i})

\* the closed trips of a user among the rows the caller may read
ClosedTripsOf(rows, caller, u) ==
    {i \in 1..Len(rows) :
        /\ TripSelectPolicy(caller, rows[i])
        /\ rows[i].user_id = u
        /\ rows[i].end_mileage # NULL}

\* C18: in the ranking a load stores, every user with at least one closed trip,
\* among the trips the caller may read, has an entry whose total_km is the sum
\* of end_mileage - start_mileage over exactly that user's closed trips and
\* whose total_trips is their number; open trips add nothing and a user
\* without a closed trip has no entry.
C18_RankingTotals ==
    [][\A c \in Clients :
            rankings'[c] # rankings[c]
            => /\ \A u \in Users :
                     ClosedTripsOf(trips, user[c], u) # {}
                     => \E k \in DOMAIN rankings'[c] :
                           /\ rankings'[c][k].user_id = u
                           /\ rankings'[c][k].total_km
                                 = SumOver(trips, ClosedTripsOf(trips, user[c], u))
                           /\ rankings'[c][k].total_trips
                                 = Cardinality(ClosedTripsOf(trips, user[c], u))
               /\ \A k \in DOMAIN rankings'[c] :
                     ClosedTripsOf(trips, user[c], rankings'[c][k].user_id) # {}]_vars

\* C18 witness: the ranking holds a user with two closed trips who also has a
\* trip without end mileage.
C18_Witness ==
    \E k \in DOMAIN rankings["tab1"] :
        /\ rankings["tab1"][k].total_trips = 2
        /\ rankings["tab1"][k].total_km > 0
        /\ \E i \in TripIds :
              /\ trips[i].user_id = rankings["tab1"][k].user_id
              /\ trips[i].end_mileage = NULL

\* C19: the ranking a load stores is in descending order of total_km (each
\* entry's total_km is >= the next one's) and holds each user once.
C19_RankingSorted ==
    [][\A c \in Clients :
            rankings'[c] # rankings[c]
            => /\ \A k \in 1..(Len(rankings'[c]) - 1) :
                     rankings'[c][k].total_km >= rankings'[c][k + 1].total_km
               /\ \A k \in DOMAIN rankings'[c], l \in DOMAIN rankings'[c] :
                     k # l => rankings'[c][k].user_id # rankings'[c][l].user_id]_vars

\* C19 witness: the ranking holds two users, the first with more kilometres.
C19_Witness ==
    /\ Len(rankings["tab1"]) = 2
    /\ rankings["tab1"][1].total_km > rankings["tab1"][2].total_km

\* C20 as claimed: whatever order the datastore returns the same rows in, a
\* load stores the same ranking: the same entries in the same order.
C20_SameRankingInAnyOrder ==
    [][\A c \in Clients :
            rankings'[c] # rankings[c]
            => \A order \in Orders(RankingRows(trips, user[c])) :
                  rankingsArray(trips, order) = rankings'[c]]_vars

\* C20 as amended: whatever order the datastore returns the same rows in, a
\* load stores the same entries (users, totals, trip counts) and the same
\* total_km at every rank: two orders differ at most in the order of entries
\* whose total_km is equal.
C20_SameRankingUpToTies ==
    [][\A c \in Clients :
            rankings'[c] # rankings[c]
            => \A order \in Orders(RankingRows(trips, user[c])) :
                  LET other == rankingsArray(trips, order)
                  IN  /\ Len(other) = Len(rankings'[c])
                      /\ {other[k] : k \in DOMAIN other}
                            = {rankings'[c][k] : k \in DOMAIN rankings'[c]}
                      /\ \A k \in DOMAIN other :
                            other[k].total_km = rankings'[c][k].total_km]_vars

\* C20 witness: the ranking holds two users with unequal totals, one of them
\* with two closed trips, so the rows can be returned in several orders.
C20_Witness ==
    /\ Len(rankings["tab1"]) = 2
    /\ rankings["tab1"][1].total_km # rankings["tab1"][2].total_km
    /\ rankings["tab1"][1].total_trips + rankings["tab1"][2].total_trips = 3

\* a trip closed with an end mileage that is not below its start mileage
ClosedWithDistance(row) ==
    /\ ~row.is_active
    /\ row.start_mileage \in 0..MaxMileage
    /\ row.end_mileage # NULL
    /\ row.end_mileage >= row.start_mileage

\* C23: in both trip history views and in the admin total, the distance of
\* every closed trip is end_mileage - start_mileage, for every start mileage
\* from 0 on and every end mileage not below it, and an open trip has no
\* distance and adds nothing to the total.
C23_ClosedTripDistance ==
    [][\A c \in Clients :
        /\ (\E u \in Users :
               \/ TripHistory_fetchTrips(c, FALSE)
               \/ fetchUserTrips(c, u, FALSE))
           => \A t \in tripHistory'[c] :
                 /\ ClosedWithDistance(trips[t.id])
                    => t.distance = trips[t.id].end_mileage - trips[t.id].start_mileage
                 /\ trips[t.id].is_active => t.distance = NULL
        /\ AdminDashboard_fetchTrips(c, FALSE)
           => totalMileage'[c] =
                 SumOver(trips, {i \in AllTrips(trips, user[c]) :
                                    ClosedWithDistance(trips[i])})]_vars

\* the closed trips of a vehicle among the rows the caller may read
ClosedTripsOfVehicle(rows, caller, v) ==
    {i \in 1..Len(rows) :
        /\ TripSelectPolicy(caller, rows[i])
        /\ rows[i].vehicle_id = v
        /\ rows[i].end_mileage # NULL}

\* C21: in the statistics a load stores, every vehicle of the result has at
\* least one closed trip among the trips the caller may read; its total_km is
\* the sum of end_mileage - start_mileage over those trips, its total_trips
\* their number, and its avg_km_per_trip the quotient of the two; and the
\* result is ordered by total_km descending.
C21_VehicleUtilization ==
    [][\A c \in Clients :
            stats'[c] # stats[c]
            => /\ \A k \in DOMAIN stats'[c] :
                     LET ids == ClosedTripsOfVehicle(trips, user[c],
                                                     stats'[c][k].vehicle_id)
                     IN  /\ ids # {}
                         /\ stats'[c][k].total_km = SumOver(trips, ids)
                         /\ stats'[c][k].total_trips = Cardinality(ids)
                         /\ stats'[c][k].total_trips >= 1
                         /\ stats'[c][k].avg_km_per_trip
                               = Quotient(SumOver(trips, ids), Cardinality(ids))
               /\ \A j \in DOMAIN stats'[c], k \in DOMAIN stats'[c] :
                     j < k => stats'[c][j].total_km >= stats'[c][k].total_km]_vars

\* C21 witness: a vehicle is reported with two closed trips, one kilometre in
\* total and the average 1/2.
C21_Witness ==
    \E k \in DOMAIN stats["tab1"] :
        /\ stats["tab1"][k].total_trips = 2
        /\ stats["tab1"][k].total_km = 1
        /\ stats["tab1"][k].avg_km_per_trip = <<1, 2>>

\* the unresolved issues of a vehicle among the observations the caller may read
UnresolvedIssuesOf(rows, caller, v) ==
    {i \in 1..Len(rows) :
        /\ ObservationSelectPolicy(caller, rows[i])
        /\ rows[i].vehicle_id = v
        /\ rows[i].observation_type = "issue"
        /\ ~rows[i].is_resolved}

\* a load of the statistics by tab c that both queries answer
StatsLoaded(c) ==
    \E order \in Orders(StatsRows(trips, user[c])) : fetchStats(c, order, FALSE, FALSE)

\* C22 as stated: every vehicle reported carries the number of its unresolved
\* issue-type observations, and every vehicle that has unresolved issues is
\* reported with that number.
C22_EveryVehicleWithIssuesReported ==
    [][\A c \in Clients :
            StatsLoaded(c)
            => /\ \A k \in DOMAIN stats'[c] :
                     stats'[c][k].active_issues
                        = Cardinality(UnresolvedIssuesOf(vehicle_observations, user[c],
                                                         stats'[c][k].vehicle_id))
               /\ \A v \in Vehicles :
                     UnresolvedIssuesOf(vehicle_observations, user[c], v) # {}
                     => \E k \in DOMAIN stats'[c] : stats'[c][k].vehicle_id = v]_vars

\* C22 amended: every vehicle reported carries the number of its unresolved
\* issue-type observations among those the caller may read (notes,
\* maintenance entries and resolved issues are not counted); a vehicle is
\* reported exactly when it has a closed trip, so a vehicle with unresolved
\* issues is reported with its count if it has a closed trip and is omitted
\* if it has none.
C22_ReportedVehiclesCarryIssueCount ==
    [][\A c \in Clients :
            StatsLoaded(c)
            => /\ \A k \in DOMAIN stats'[c] :
                     stats'[c][k].active_issues
                        = Cardinality(UnresolvedIssuesOf(vehicle_observations, user[c],
                                                         stats'[c][k].vehicle_id))
               /\ \A v \in Vehicles :
                     (\E k \in DOMAIN stats'[c] : stats'[c][k].vehicle_id = v)
                        <=> ClosedTripsOfVehicle(trips, user[c], v) # {}]_vars

\* C22 witness: a vehicle is reported with one unresolved issue while the
\* table holds a second observation of that vehicle, a resolved issue, that is
\* not counted.
C22_Witness ==
    /\ Len(stats["tab1"]) = 1
    /\ stats["tab1"][1].vehicle_id = "VEHICLE-001"
    /\ stats["tab1"][1].active_issues = 1
    /\ Len(vehicle_observations) = 2
    /\ \E i \in 1..2 : /\ vehicle_observations[i].vehicle_id = "VEHICLE-001"
                       /\ vehicle_observations[i].observation_type = "issue"
                       /\ vehicle_observations[i].is_resolved

\* C28: the availability check fails closed.  When the availability query
\* errors, checkAvailability answers false; a submission whose check answered
\* false is reported as unavailable and inserts nothing; and when the insert
\* errors no row is added and the form (dialog open, entered fields) is kept.
C28_FailsClosed ==
    [][\A c \in Clients :
        /\ \A v \in FormVehicles, sd \in FormDates, st \in FormTimes,
              ed \in FormDates, et \in FormTimes :
                (handleSubmit(c, v, sd, st, ed, et, TRUE) /\ pc'[c] = "checked")
                => ~request'[c].isAvailable
        /\ \A err \in BOOLEAN, fetchErr \in BOOLEAN :
                (handleSubmitInsert(c, err, fetchErr) /\ ~request[c].isAvailable)
                => /\ toast' = "Veiculo nao disponivel no periodo selecionado"
                   /\ vehicle_reservations' = vehicle_reservations
                   /\ form'[c] = form[c]
        /\ \A fetchErr \in BOOLEAN :
                (handleSubmitInsert(c, TRUE, fetchErr) /\ request[c].isAvailable)
                => /\ toast' = "Erro ao criar reserva"
                   /\ vehicle_reservations' = vehicle_reservations
                   /\ form'[c] = form[c]]_vars

\* C28 witness: the insert of a submission that passed the check failed; the
\* table holds the stored row only and the dialog is still open and filled.
C28_Witness ==
    /\ toast = "Erro ao criar reserva"
    /\ Len(vehicle_reservations) = 1
    /\ form["tab1"] = FilledForm

\* the trips of a vehicle among the rows the caller may read
TripsOfVehicle(rows, caller, v) ==
    {i \in 1..Len(rows) : TripSelectPolicy(caller, rows[i]) /\ rows[i].vehicle_id = v}

\* the vehicle's most recent trip recorded a range r with 0 <= r < 130
RecordedLowRange(rows, caller, v) ==
    \E i \in TripsOfVehicle(rows, caller, v) :
        /\ \A j \in TripsOfVehicle(rows, caller, v) : j <= i
        /\ rows[i].range_remaining # NULL
        /\ rows[i].range_remaining >= 0
        /\ rows[i].range_remaining < LowRange

\* C24: after a load of the trip-start screen that every query answers, the
\* warning is shown for a selected vehicle exactly when its most recent trip
\* recorded a range r with 0 <= r < 130; and with the warning shown a valid
\* submission that the datastore takes still creates the trip.
C24_LowRangeWarning ==
    [][\A c \in Clients :
        /\ fetchVehicles(c, FALSE, {})
           => \A v \in Vehicles :
                 LowRangeWarning(vehiclesWithRange'[c], v)
                    <=> RecordedLowRange(trips, user[c], v)
        /\ (/\ StartTrip_handleSubmitInsert(c, FALSE)
            /\ LowRangeWarning(vehiclesWithRange[c], request[c].selectedVehicle)
            /\ Len(trips) < MaxTripRows)
           => Len(trips') = Len(trips) + 1]_vars

\* a roster request of tab c: an insert, an update or a delete
RosterRequest(c) ==
    \/ \E editingVehicle \in VehicleIds \cup {NoVehicle}, formData \in FormDataInputs,
          err \in BOOLEAN, fetchErr \in BOOLEAN :
            VehicleManagement_handleSubmit(c, editingVehicle, formData, err, fetchErr)
    \/ \E vehicleId \in VehicleIds, err \in BOOLEAN, fetchErr \in BOOLEAN :
            handleDelete(c, vehicleId, err, fetchErr)

\* C26: an insert, update or delete of a vehicle row takes effect only when
\* the caller has the admin role: after any roster request of a caller
\* without it the vehicles table is what it was.
C26_RosterAdminOnly ==
    [][\A c \in Clients :
            (RosterRequest(c) /\ ~has_role(user[c], "admin"))
            => vehicles' = vehicles]_vars

\* C26 witness: the administrator has added a third vehicle, and the last
\* request, a delete that the datastore answered without error, removed
\* nothing, as only a delete of a caller without the admin role does while
\* every id is in the roster.
C26_Witness ==
    /\ {r.id : r \in vehicles} = VehicleIds
    /\ toast = "Veiculo eliminado com sucesso"

\* the rows of a table that name userId as their user, in the table's order
OwnedBy(rows, userId) == SelectSeq(rows, LAMBDA row : row.user_id = userId)

\* a request of tab c that writes: an insert, an update or a vehicle delete
OwnershipWrite(c) ==
    \/ \E userId \in Users, vehicleId \in Vehicles : trips_insert(c, userId, vehicleId)
    \/ \E id \in 1..MaxTripRows : trips_update(c, id, 9)
    \/ \E userId \in Users : vehicle_reservations_insert(c, userId, "VEHICLE-001")
    \/ \E id \in 1..MaxReservations : vehicle_reservations_update(c, id, "cancelled")
    \/ handleDelete(c, "VEHICLE-001", FALSE, FALSE)

\* what the queries of a caller without the admin role return is the caller's own
OwnRowsReturned(c) ==
    /\ trips_select(c) => \A t \in tripHistory'[c] : trips[t.id].user_id = user[c]
    /\ vehicle_reservations_select(c)
       => \A r \in reservations'[c] : vehicle_reservations[r.id].user_id = user[c]

\* C27 as stated: no operation of a user changes or closes a trip of another
\* user: after every request of tab c the trips of every other user are the
\* rows they were; a request of a caller without the admin role also leaves
\* the other users' reservations as they were, and its queries return only the
\* caller's own rows.
C27_OthersRowsUntouched ==
    [][\A c \in Clients :
          /\ OwnershipWrite(c)
             => \A b \in Users \ {user[c]} :
                   /\ OwnedBy(trips', b) = OwnedBy(trips, b)
                   /\ ~has_role(user[c], "admin")
                      => OwnedBy(vehicle_reservations', b) = OwnedBy(vehicle_reservations, b)
          /\ ~has_role(user[c], "admin") => OwnRowsReturned(c)]_vars

\* C27 amended: a request of a caller without the admin role leaves the trips
\* and reservations of every other user the rows they were and its queries
\* return only the caller's own rows; a request of an administrator adds no
\* trip to another user and changes no field of another user's trip, and
\* removes exactly those that refer to a vehicle the request deletes.
C27_OwnershipEnforced ==
    [][\A c \in Clients :
          /\ OwnershipWrite(c)
             => \A b \in Users \ {user[c]} :
                   IF has_role(user[c], "admin")
                   THEN OwnedBy(trips', b)
                            = Cascade(OwnedBy(trips, b), vehicles \ vehicles')
                   ELSE /\ OwnedBy(trips', b) = OwnedBy(trips, b)
                        /\ OwnedBy(vehicle_reservations', b)
                               = OwnedBy(vehicle_reservations, b)
          /\ ~has_role(user[c], "admin") => OwnRowsReturned(c)]_vars

\* C27 witness: each table holds a row of bob followed by a row of alice, and
\* alice's unfiltered queries have returned her second rows only: her open
\* trip and her pending reservation.
C27_Witness ==
    /\ Len(trips) = 2 /\ trips[1].user_id = "bob" /\ trips[2].user_id = "alice"
    /\ Len(vehicle_reservations) = 2
    /\ vehicle_reservations[1].user_id = "bob"
    /\ vehicle_reservations[2].user_id = "alice"
    /\ tripHistory["tab1"] = {[id |-> 2, distance |-> NULL]}
    /\ reservations["tab1"] =
           {[id |-> 2, vehicle_id |-> "VEHICLE-001", status |-> "pending"]}

\* C29: the in-flight flag is always released: `loading` is set only while
\* StartTrip's handleSubmit is at its datastore call and `submitting` only
\* while handleEndTrip is at its own, so each is false whenever its handler
\* has finished, whatever path it took; and a flag that is set is released.
C29_GuardReleased ==
    /\ [](\A c \in Clients :
            /\ loading[c] => pc[c] = "starting"
            /\ submitting[c] => pc[c] = "ending")
    /\ \A c \in Clients :
          /\ loading[c] ~> ~loading[c]
          /\ submitting[c] ~> ~submitting[c]

\* C29 witness: a trip has been started and ended, the last start of a trip
\* was answered with an error, and no flag is set.
C29_Witness ==
    /\ toast = "Failed to start trip"
    /\ \E i \in 1..Len(trips) : ~trips[i].is_active
    /\ \A c \in Clients : pc[c] = "idle" /\ ~loading[c] /\ ~submitting[c]

\* C25: no state-changing action is re-entrant: while an invocation of
\* startTripFromReservation on a tab waits for the answer to its reservation
\* update, which inserts nothing, the tab inserts no trip, so one reservation
\* does not receive a second trip from a second click.
C25_NoReentry ==
    [][\A c \in Clients : pc[c] = "tripInserted" => trips' = trips]_vars

\* the vehicle has an active reservation whose owner has closed a trip on it
ActiveAfterTrip(vehicleId) ==
    \E i \in 1..Len(vehicle_reservations), j \in 1..Len(trips) :
        /\ vehicle_reservations[i].vehicle_id = vehicleId
        /\ vehicle_reservations[i].status = "active"
        /\ trips[j].vehicle_id = vehicleId
        /\ trips[j].user_id = vehicle_reservations[i].user_id
        /\ ~trips[j].is_active

\* C30: endTrip leaves every reservation row unchanged and no operation sets a
\* status to completed: a reservation made active stays active when its trip
\* is ended, and every later availability check for its vehicle that the
\* datastore answers still counts it, so the check returns false.
C30_ActiveStaysBlocking ==
    /\ [][\A c \in Clients :
            /\ (\E err \in BOOLEAN, fetchErr \in BOOLEAN : handleEndTripUpdate(c, err, fetchErr))
               => vehicle_reservations' = vehicle_reservations
            /\ (/\ handleSubmit(c, "VEHICLE-001", 1, 0, 1, 1, FALSE)
                /\ ActiveAfterTrip("VEHICLE-001"))
               => ~request'[c].isAvailable]_vars
    /\ [](\A i \in 1..Len(vehicle_reservations) :
            vehicle_reservations[i].status # "completed")

====
